---- MODULE Spec2Model ----
(***************************************************************************)
(* Timeline editing engine of the timeline builder (src/unnamed/part_001,  *)
(* the full App component; src/web/src/App.tsx is an earlier cut of the    *)
(* same file with the same history store, snap and move/trim code).        *)
(*                                                                         *)
(* Times are integers in centiseconds (1 = 0.01 s): 18 s = 1800, the grid  *)
(* step 0.25 s = 25, the snap threshold 0.12 s = 12, MIN_CLIP 0.2 s = 20,  *)
(* the 0.01 s epsilon = 1.  A pointer displacement is given directly as    *)
(* the deltaSec the handler derives from it, (clientX - startX)/pxPerSec.*)
(* Floating-point rounding is not modelled.  The display-only fields of    *)
(* tracks, clips and markers (name, color) are left out: no edit, snap,    *)
(* history or playback code reads them.  The browser storage is empty at   *)
(* start, so the restore effect leaves the default project in place.       *)
(*                                                                         *)
(* Each handler is one action and sees the state of the latest render:     *)
(* the effect that registers onMove/onUp re-runs after every render        *)
(* (setProject and pushCheckpoint are new functions each render).          *)
(***************************************************************************)
EXTENDS Integers, Sequences, FiniteSets, TLC

VARIABLES
  project,           \* useHistoryState.state: [tracks, clips, markers]
  history,           \* historyRef.current (1-based here)
  pointer,           \* pointerRef.current (0-based as in the code)
  selection,         \* [clipIds, marquee]
  snap,              \* [position, label]
  dragRef,           \* dragRef.current
  dragStartedState,  \* dragStartedState.current
  allowOverlap,
  rippleEdit,
  rollEdit,
  crashed,           \* an updater threw: the render failed and React unmounted the app
  frame,             \* the last pointer-move frame of the gesture: [moved, deltaSec]
  exportDoc,         \* the document written by the last exportJson
  playhead,          \* the playhead position
  playing,
  assets,            \* the asset library
  probing,           \* the ids of the assets whose upload still awaits their metadata
  sources,           \* sourcesRef.current: the audio sources scheduled by startPlayback
  loopEnabled,
  loopRange,         \* [start, end]
  loopHandleRef,     \* loopHandleRef.current: "null", "loop-start" or "loop-end"
  anchor,            \* [pos, time]: playheadStartRef.current, playStartTimeRef.current
  currentTime,       \* ctx.currentTime of the audio context
  calls,             \* the startPlayback calls made so far: numbers them
  starts,            \* the startPlayback calls waiting at an await: [call, stage, env]
  sourcesBy,         \* the call that filled sourcesRef.current (0: none)
  live,              \* the audio sources started and not stopped: [src, call]
  rafRef,            \* rafRef.current: the call whose frame request it holds (0: null)
  ticks,             \* the frame requests pending: [call, env]
  ident,             \* which objects are the same: [hist, state], see Canon
  rendered,          \* [canUndo, canRedo] as returned by useHistoryState at the last render
  scn,               \* observer: bookkeeping of the edit/undo/redo scenario
  probe,             \* observer: inputs and results of a direct snapTime call
  budget             \* observer: counts the steps taken, to bound the search

loopVars == <<loopEnabled, loopRange, loopHandleRef>>
asyncVars == <<anchor, currentTime, calls, starts, sourcesBy, live, rafRef, ticks>>
mediaVars == <<playhead, playing, assets, probing, sources, loopVars, asyncVars>>
hookVars == <<ident, rendered>>

progVars == <<project, history, pointer, selection, snap, dragRef, dragStartedState,
              allowOverlap, rippleEdit, rollEdit, crashed, frame, exportDoc, mediaVars,
              hookVars>>
vars == <<project, history, pointer, selection, snap, dragRef, dragStartedState,
          allowOverlap, rippleEdit, rollEdit, crashed, frame, exportDoc, mediaVars,
          hookVars, scn, probe, budget>>

-----------------------------------------------------------------------------
(* Program constants *)

TOTAL_DURATION == 1800
GRID_STEP == 25
SNAP_THRESHOLD_SEC == 12
MIN_CLIP == 20
\* the literal 0.01 of the move and trim branches
EPSILON == 1
\* useHistoryState(initial, limit = 80)
limit == 80
\* an optional numeric field that is absent (undefined)
Undef == -1

Min(a, b) == IF a < b THEN a ELSE b
Max(a, b) == IF a > b THEN a ELSE b
Abs(a) == IF a < 0 THEN -a ELSE a

clamp(v, lo, hi) == Min(hi, Max(lo, v))
clampTime(value) == Min(Max(value, 0), TOTAL_DURATION)

\* v ?? d for an optional numeric field
OrElse(v, d) == IF v = Undef THEN d ELSE v

-----------------------------------------------------------------------------
(* Project model *)

Track(id, type) ==
  [id |-> id, type |-> type, mute |-> "undefined", solo |-> "undefined",
   locked |-> "undefined", height |-> "normal"]

Clip(id, title, track, start, duration) ==
  [id |-> id, title |-> title, track |-> track, start |-> start, duration |-> duration,
   url |-> "undefined", assetType |-> "undefined", waveform |-> "undefined",
   thumb |-> "undefined", mediaDuration |-> Undef, mediaOffset |-> Undef]

Marker(time, label) == [time |-> time, label |-> label]

DEFAULT_TRACKS ==
  << Track("v1", "video"), Track("v2", "video"), Track("a1", "audio"), Track("a2", "audio") >>

DEFAULT_CLIPS ==
  << Clip("c1", "Intro", "v1", 0, 600),
     Clip("c2", "Scene A", "v1", 650, 800),
     Clip("c3", "Lower Third", "v2", 670, 400),
     Clip("c4", "Chorus", "a1", 200, 1200),
     Clip("c5", "Steps", "a2", 400, 550) >>

DEFAULT_MARKERS ==
  << Marker(200, "Beat drop"), Marker(850, "Cut to B-roll"), Marker(1200, "Logo hit") >>

DefaultProject ==
  [tracks |-> DEFAULT_TRACKS, clips |-> DEFAULT_CLIPS, markers |-> DEFAULT_MARKERS]

Truthy(flag) == flag = "true"

\* Sequence helpers standing for Array.prototype.filter / find / at(-1) / sort
RECURSIVE Filter(_, _)
Filter(s, keep) ==
  IF s = <<>> THEN <<>>
  ELSE IF Head(s) \in keep THEN <<Head(s)>> \o Filter(Tail(s), keep)
       ELSE Filter(Tail(s), keep)

Range(s) == {s[i] : i \in 1..Len(s)}

\* an optional value is a sequence of length 0 (undefined) or 1
First(s) == IF s = <<>> THEN <<>> ELSE <<s[1]>>
Last(s) == IF s = <<>> THEN <<>> ELSE <<s[Len(s)]>>

\* stable insertion of c into a sequence sorted by start
RECURSIVE InsertByStart(_, _)
InsertByStart(c, s) ==
  IF s = <<>> THEN <<c>>
  ELSE IF s[Len(s)].start <= c.start THEN Append(s, c)
       ELSE Append(InsertByStart(c, SubSeq(s, 1, Len(s) - 1)), s[Len(s)])

\* .sort((a, b) => a.start - b.start), a stable sort
RECURSIVE SortByStart(_)
SortByStart(s) ==
  IF s = <<>> THEN <<>>
  ELSE InsertByStart(s[Len(s)], SortByStart(SubSeq(s, 1, Len(s) - 1)))

ClipEnd(c) == c.start + c.duration

FindClip(clips, id) == First(Filter(clips, {c \in Range(clips) : c.id = id}))

-----------------------------------------------------------------------------
(* Snap engine *)

SnapPoint(time, kind, name) == [time |-> time, label |-> [kind |-> kind, name |-> name]]

\* the label null of snapTime
NullLabel == [kind |-> "null", name |-> ""]
\* label || formatTime(time): the text is the formatted position
TimeLabel == [kind |-> "formatTime", name |-> ""]

\* the points pushed for trackClips[idx]: both edges, then the gap to the previous clip
ClipSnapPoints(trackClips, idx) ==
  LET c == trackClips[idx]
      edges == << SnapPoint(c.start, "Edge", c.title), SnapPoint(ClipEnd(c), "Edge", c.title) >>
  IN  IF idx > 1
      THEN LET prev == trackClips[idx - 1]
               gapStart == ClipEnd(prev)
               gapEnd == c.start
           IN  IF (gapEnd - gapStart) * 10 >= MIN_CLIP * 8
               THEN edges \o << SnapPoint(gapStart, "Gap start", ""), SnapPoint(gapEnd, "Gap end", "") >>
               ELSE edges
      ELSE edges

RECURSIVE TrackSnapPoints(_, _)
TrackSnapPoints(trackClips, idx) ==
  IF idx > Len(trackClips) THEN <<>>
  ELSE ClipSnapPoints(trackClips, idx) \o TrackSnapPoints(trackClips, idx + 1)

\* for (let t = 0; t <= TOTAL_DURATION; t += GRID_STEP)
GridPoints == [i \in 1..(TOTAL_DURATION \div GRID_STEP + 1) |-> SnapPoint((i - 1) * GRID_STEP, "Grid", "")]

collectSnapPoints(p, trackId, excludeId) ==
  LET markerPts == [i \in 1..Len(p.markers) |-> SnapPoint(p.markers[i].time, "Marker", p.markers[i].label)]
      trackClips == SortByStart(Filter(p.clips, {c \in Range(p.clips) : c.track = trackId /\ c.id # excludeId}))
  IN  markerPts \o TrackSnapPoints(trackClips, 1) \o GridPoints

\* the loop of snapTime from point i on; acc = [time, label, minDelta]
RECURSIVE snapLoop(_, _, _, _)
snapLoop(candidate, snaps, i, acc) ==
  IF i > Len(snaps) THEN acc
  ELSE LET s == snaps[i]
           d == Abs(candidate - s.time)
       IN  IF d < acc.minDelta
           THEN snapLoop(candidate, snaps, i + 1, [time |-> s.time, label |-> s.label, minDelta |-> d])
           ELSE snapLoop(candidate, snaps, i + 1, acc)

\* a loop that takes every point within the threshold and never lowers minDelta
RECURSIVE snapLoopKeepsThreshold(_, _, _, _)
snapLoopKeepsThreshold(candidate, snaps, i, acc) ==
  IF i > Len(snaps) THEN acc
  ELSE LET s == snaps[i]
           d == Abs(candidate - s.time)
       IN  IF d < acc.minDelta
           THEN snapLoopKeepsThreshold(candidate, snaps, i + 1,
                  [time |-> s.time, label |-> s.label, minDelta |-> acc.minDelta])
           ELSE snapLoopKeepsThreshold(candidate, snaps, i + 1, acc)

\* a loop that also takes a point that is as close as the best one so far
RECURSIVE snapLoopLastOnTies(_, _, _, _)
snapLoopLastOnTies(candidate, snaps, i, acc) ==
  IF i > Len(snaps) THEN acc
  ELSE LET s == snaps[i]
           d == Abs(candidate - s.time)
       IN  IF d <= acc.minDelta /\ d < SNAP_THRESHOLD_SEC
           THEN snapLoopLastOnTies(candidate, snaps, i + 1,
                  [time |-> s.time, label |-> s.label, minDelta |-> d])
           ELSE snapLoopLastOnTies(candidate, snaps, i + 1, acc)

\* snapTime with d <= minDelta as the test
snapTimeLastOnTies(candidate, snaps) ==
  LET r == snapLoopLastOnTies(candidate, snaps, 1,
             [time |-> candidate, label |-> NullLabel, minDelta |-> SNAP_THRESHOLD_SEC])
  IN  [time |-> r.time, label |-> r.label]

\* snapTime without the assignment minDelta = d
snapTimeKeepsThreshold(candidate, snaps) ==
  LET r == snapLoopKeepsThreshold(candidate, snaps, 1,
             [time |-> candidate, label |-> NullLabel, minDelta |-> SNAP_THRESHOLD_SEC])
  IN  [time |-> r.time, label |-> r.label]

snapTime(candidate, snaps) ==
  LET r == snapLoop(candidate, snaps, 1,
                    [time |-> candidate, label |-> NullLabel, minDelta |-> SNAP_THRESHOLD_SEC])
  IN  [time |-> r.time, label |-> r.label]

-----------------------------------------------------------------------------
(* History store *)

\* a push that keeps the entries after the pointer
PushEntryKeepsRedo(hist, ptr, next) ==
  LET nextHistory == Append(hist, next)
      shifted == IF Len(nextHistory) > limit THEN Tail(nextHistory) ELSE nextHistory
  IN  [history |-> shifted, pointer |-> Len(shifted) - 1]

\* the body of commit's setState updater when opts.push !== false
PushEntry(hist, ptr, next) ==
  LET sliced == SubSeq(hist, 1, ptr + 1)
      nextHistory == Append(sliced, next)
      shifted == IF Len(nextHistory) > limit THEN Tail(nextHistory) ELSE nextHistory
  IN  [history |-> shifted, pointer |-> Len(shifted) - 1]

\* a checkpoint that never drops the oldest entry
pushCheckpointNoShift(hist, ptr) ==
  LET nextHistory == Append(SubSeq(hist, 1, ptr + 1), hist[ptr + 1])
  IN  [history |-> nextHistory, pointer |-> Len(nextHistory) - 1]

\* pushCheckpoint: appends historyRef.current[pointerRef.current]
pushCheckpoint(hist, ptr) == PushEntry(hist, ptr, hist[ptr + 1])

\* a commit that appends although push is false
NoPushEntryAppends(hist, ptr, next) == [history |-> Append(hist, next), pointer |-> Len(hist)]

\* the body of commit's setState updater when opts.push === false: the refs are not touched
NoPushEntry(hist, ptr, next) == [history |-> hist, pointer |-> ptr]

\* `const canUndo = ...` / `const canRedo = ...`: evaluated when the hook runs, at a render
canUndo == pointer > 0
canRedo == pointer < Len(history) - 1

\* Object identity.  The history holds references: pushCheckpoint appends the object
\* that is already at the pointer, undo and redo hand a history entry to setState, and
\* setState skips the render when it is given the very object that is the state
\* (Object.is).  ident.hist[i] is the index of the first history entry that is the same
\* object as entry i, ident.state that index for the rendered state, 0 when the state
\* is an object no entry holds.
Canon(ids, st) ==
  [hist |-> [i \in 1..Len(ids) |->
               CHOOSE j \in 1..i : ids[j] = ids[i] /\ \A k \in 1..(j - 1) : ids[k] # ids[i]],
   state |-> IF \E j \in 1..Len(ids) : ids[j] = st
             THEN CHOOSE j \in 1..Len(ids) : ids[j] = st /\ \A k \in 1..(j - 1) : ids[k] # st
             ELSE 0]

\* commit with push: `next` is a new object, appended and rendered
identPush(id, ptr) ==
  LET new == Len(id.hist) + 1
  IN  Canon(PushEntry(id.hist, ptr, new).history, new)
\* commit without push: the state is a new object, the entries stay
identNoPush(id, ptr) ==
  LET new == Len(id.hist) + 1
  IN  Canon(NoPushEntry(id.hist, ptr, new).history, new)
\* pushCheckpoint: the entry at the pointer is appended again, the state stays
identCheckpoint(id, ptr) == Canon(pushCheckpoint(id.hist, ptr).history, id.state)
\* setState(historyRef.current[pointerRef.current])
identEntry(id, ptr) == [id EXCEPT !.state = id.hist[ptr + 1]]

\* a render: the hook runs again and returns canUndo / canRedo of the refs as they are then
Render == rendered' = [canUndo |-> canUndo', canRedo |-> canRedo']

-----------------------------------------------------------------------------
(* Edit controller: the setProject updater of onMove *)

NoDrag == [id |-> "null", mode |-> "null", origStart |-> 0, origDuration |-> 0]
Modes == {"move", "trim-start", "trim-end", "slip", "slide"}

\* project.clips.filter(c => c.track === trackId && c.id !== id).sort(by start)
siblingsOf(p, trackId, id) ==
  SortByStart(Filter(p.clips, {c \in Range(p.clips) : c.track = trackId /\ c.id # id}))

\* siblings.filter(s => s.start + s.duration <= t).at(-1)
prevSiblingAt(siblings, t) == Last(Filter(siblings, {s \in Range(siblings) : ClipEnd(s) <= t}))
\* siblings.find(s => s.start >= t)
nextSiblingAt(siblings, t) == First(Filter(siblings, {s \in Range(siblings) : s.start >= t}))

\* What the map callback does for one clip: it returns a clip, or it throws.
Returned(c) == [throws |-> FALSE, clip |-> c]
\* `let updatedClips = prev.clips.map(c => { ... updatedClips.map(...) ... })`: the
\* callback runs while the initializer of updatedClips is still being evaluated, so
\* reading updatedClips inside it is a read of an uninitialized binding.  With `let`
\* kept by the build that is a ReferenceError, with `let` lowered to `var` it is
\* undefined.map, a TypeError: either way the callback throws and the updater with it.
Thrown(c) == [throws |-> TRUE, clip |-> c]

\* a move that places the clip at the clamped candidate without snapping it
moveClipNoSnap(c, drag, d, siblings, snaps, opts) ==
  LET snapped == clampTime(drag.origStart + d)
      nextSibling == nextSiblingAt(siblings, snapped)
      afterNext == IF ~opts.allowOverlap /\ nextSibling # <<>> /\ snapped + c.duration > nextSibling[1].start
                   THEN Max(0, nextSibling[1].start - c.duration - EPSILON)
                   ELSE snapped
  IN  Returned([c EXCEPT !.start = clampTime(afterNext)])

moveClip(c, drag, d, siblings, snaps, opts) ==
  LET clamped == clampTime(drag.origStart + d)
      snapped == snapTime(clamped, snaps).time
      prevSibling == prevSiblingAt(siblings, snapped)
      nextSibling == nextSiblingAt(siblings, snapped)
      afterPrev == IF ~opts.allowOverlap /\ prevSibling # <<>> /\ snapped < ClipEnd(prevSibling[1])
                   THEN ClipEnd(prevSibling[1]) + EPSILON
                   ELSE snapped
      afterNext == IF ~opts.allowOverlap /\ nextSibling # <<>> /\ afterPrev + c.duration > nextSibling[1].start
                   THEN Max(0, nextSibling[1].start - c.duration - EPSILON)
                   ELSE afterPrev
  IN  Returned([c EXCEPT !.start = clampTime(afterNext)])

slipClip(c, drag, d) ==
  LET mediaDur == OrElse(c.mediaDuration, drag.origDuration)
      maxOffset == Max(0, mediaDur - drag.origDuration)
      nextOffset == clampTime(OrElse(c.mediaOffset, 0) + d)
      boundedOffset == Min(Max(nextOffset, 0), maxOffset)
  IN  Returned([c EXCEPT !.mediaOffset = boundedOffset, !.start = drag.origStart,
                         !.duration = drag.origDuration])

\* the candidate start of the slide branch, up to the statement that reads updatedClips
slideCandidate(c, drag, d, siblings, opts) ==
  LET clamped == clampTime(drag.origStart + d)
      prevSibling == prevSiblingAt(siblings, drag.origStart)
      nextSibling == nextSiblingAt(siblings, drag.origStart)
      afterPrev == IF ~opts.allowOverlap /\ prevSibling # <<>> /\ clamped < ClipEnd(prevSibling[1])
                   THEN ClipEnd(prevSibling[1]) + EPSILON
                   ELSE clamped
  IN  IF ~opts.allowOverlap /\ nextSibling # <<>> /\ afterPrev + c.duration > nextSibling[1].start
      THEN Max(0, nextSibling[1].start - c.duration - EPSILON)
      ELSE afterPrev

\* the slide branch always reaches `updatedClips = updatedClips.map(...)`
slideClip(c, drag, d, siblings, opts) == Thrown(c)

\* a trim-start that computes origDuration - boundary shift without the MIN_CLIP floor
trimStartClipNoFloor(c, drag, d, siblings, snaps, opts) ==
  LET prevSibling == prevSiblingAt(siblings, drag.origStart)
      snappedStart == snapTime(clampTime(drag.origStart + d), snaps).time
      boundedStart == IF ~opts.allowOverlap /\ prevSibling # <<>>
                      THEN Max(snappedStart, ClipEnd(prevSibling[1]) + EPSILON)
                      ELSE snappedStart
  IN  IF opts.rollEdit /\ prevSibling # <<>>
      THEN Thrown(c)
      ELSE Returned([c EXCEPT !.start = clampTime(boundedStart),
                              !.duration = drag.origDuration - (snappedStart - drag.origStart)])

trimStartClip(c, drag, d, siblings, snaps, opts) ==
  LET prevSibling == prevSiblingAt(siblings, drag.origStart)
      newStart == clampTime(drag.origStart + d)
      snappedStart == snapTime(newStart, snaps).time
      deltaBoundary == snappedStart - drag.origStart
      newPrevDur == Max(MIN_CLIP, prevSibling[1].duration + deltaBoundary)
      newThisDur == Max(MIN_CLIP, drag.origDuration - deltaBoundary)
      rollTaken == opts.rollEdit /\ prevSibling # <<>> /\ newPrevDur >= MIN_CLIP /\ newThisDur >= MIN_CLIP
      newDur == Max(MIN_CLIP, drag.origDuration - (snappedStart - drag.origStart))
      boundedStart == IF ~opts.allowOverlap /\ prevSibling # <<>>
                      THEN Max(snappedStart, ClipEnd(prevSibling[1]) + EPSILON)
                      ELSE snappedStart
  IN  IF rollTaken
      THEN Thrown(c)
      ELSE Returned([c EXCEPT !.start = clampTime(boundedStart), !.duration = Max(MIN_CLIP, newDur)])

trimEndClip(c, drag, d, siblings, snaps, opts) ==
  LET newDur0 == Max(MIN_CLIP, drag.origDuration + d)
      nextSibling == nextSiblingAt(siblings, drag.origStart)
      rollSnappedEnd == snapTime(drag.origStart + newDur0, snaps).time
      deltaBoundary == rollSnappedEnd - (drag.origStart + drag.origDuration)
      newNextDur == Max(MIN_CLIP, nextSibling[1].duration - deltaBoundary)
      rollTaken == opts.rollEdit /\ nextSibling # <<>> /\ newNextDur >= MIN_CLIP
      newDur1 == IF nextSibling # <<>> /\ ~opts.allowOverlap
                 THEN Min(newDur0, nextSibling[1].start - drag.origStart - EPSILON)
                 ELSE newDur0
      newDur2 == Min(newDur1, TOTAL_DURATION - drag.origStart)
      newDur3 == Max(MIN_CLIP, newDur2)
      snappedEnd == snapTime(drag.origStart + newDur3, snaps).time
      newDur4 == Max(MIN_CLIP, snappedEnd - drag.origStart)
  IN  IF rollTaken
      THEN Thrown(c)
      ELSE Returned([c EXCEPT !.duration = newDur4])

\* the callback of prev.clips.map for the dragged clip
dragClip(c, drag, d, siblings, snaps, opts) ==
  CASE drag.mode = "move" -> moveClip(c, drag, d, siblings, snaps, opts)
    [] drag.mode = "slip" -> slipClip(c, drag, d)
    [] drag.mode = "slide" -> slideClip(c, drag, d, siblings, opts)
    [] drag.mode = "trim-start" -> trimStartClip(c, drag, d, siblings, snaps, opts)
    [] OTHER -> trimEndClip(c, drag, d, siblings, snaps, opts)

\* ripple shift of the downstream clips
rippleClips(updatedClips, drag, trackId, opts) ==
  LET moved == FindClip(updatedClips, drag.id)
  IN  IF opts.rippleEdit /\ moved # <<>>
      THEN LET delta == moved[1].start - drag.origStart
               deltaDur == moved[1].duration - drag.origDuration
               pivot == drag.origStart + (IF drag.mode = "trim-start" THEN 0 ELSE drag.origDuration)
           IN  [i \in 1..Len(updatedClips) |->
                 LET c == updatedClips[i]
                 IN  IF c.id = drag.id \/ c.track # trackId THEN c
                     ELSE IF drag.mode = "move"
                          THEN IF c.start >= drag.origStart
                               THEN [c EXCEPT !.start = clampTime(c.start + delta)]
                               ELSE c
                          ELSE IF c.start >= pivot
                               THEN [c EXCEPT !.start = clampTime(c.start + deltaDur)]
                               ELSE c]
      ELSE updatedClips

\* the updater passed to setProject by onMove: the next project, or a throw
onMoveUpdater(prev, drag, d, siblings, snaps, trackId, opts) ==
  LET results == [i \in 1..Len(prev.clips) |->
                   IF prev.clips[i].id # drag.id THEN Returned(prev.clips[i])
                   ELSE dragClip(prev.clips[i], drag, d, siblings, snaps, opts)]
      updatedClips == [i \in 1..Len(prev.clips) |-> results[i].clip]
  IN  IF \E i \in 1..Len(prev.clips) : results[i].throws
      THEN [throws |-> TRUE, project |-> prev]
      ELSE [throws |-> FALSE,
            project |-> [prev EXCEPT !.clips = rippleClips(updatedClips, drag, trackId, opts)]]

\* a frame that takes the snap indicator away
noGhost(drag, d, snaps) == [position |-> Undef, label |-> NullLabel]

\* the snap ghost set after setProject
snapGhost(drag, d, snaps) ==
  LET r == IF drag.mode \in {"move", "trim-start"}
           THEN snapTime(clampTime(drag.origStart + d), snaps)
           ELSE snapTime(drag.origStart + Max(MIN_CLIP, drag.origDuration + d), snaps)
  IN  [position |-> r.time, label |-> IF r.label = NullLabel THEN TimeLabel ELSE r.label]

-----------------------------------------------------------------------------
(* Project file interchange: JSON.stringify / JSON.parse *)

NumberKeys == {"start", "duration", "mediaDuration", "mediaOffset", "time"}
IsUndefined(o, k) == IF k \in NumberKeys THEN o[k] = Undef ELSE o[k] = "undefined"
UndefinedOf(k) == IF k \in NumberKeys THEN Undef ELSE "undefined"

TrackKeys == DOMAIN Track("", "")
ClipKeys == DOMAIN Clip("", "", "", 0, 0)
MarkerKeys == DOMAIN Marker(0, "")

\* JSON.stringify of an object leaves out the keys whose value is undefined
jsonObject(o) == [k \in {x \in DOMAIN o : ~IsUndefined(o, x)} |-> o[k]]
jsonArray(s) == [i \in 1..Len(s) |-> jsonObject(s[i])]
\* a key that is absent from a parsed object reads as undefined
parsedObject(j, keys) == [k \in keys |-> IF k \in DOMAIN j THEN j[k] ELSE UndefinedOf(k)]
parsedArray(a, keys) == [i \in 1..Len(a) |-> parsedObject(a[i], keys)]

\* no document exported yet
NoDoc == [none |-> TRUE]

\* the document of exportJson: JSON.stringify({ tracks, clips, markers })
exportJson(p) ==
  [tracks |-> jsonArray(p.tracks), clips |-> jsonArray(p.clips), markers |-> jsonArray(p.markers)]

\* an import that reads the clips under a misspelt key, so always takes the default
importJsonWrongKey(data) ==
  [tracks |-> IF "tracks" \in DOMAIN data THEN parsedArray(data.tracks, TrackKeys) ELSE DEFAULT_TRACKS,
   clips |-> DEFAULT_CLIPS,
   markers |-> IF "markers" \in DOMAIN data THEN parsedArray(data.markers, MarkerKeys) ELSE DEFAULT_MARKERS]

\* an import that falls back to the whole default project when any key is absent
importJsonAllOrNothing(data) ==
  IF {"tracks", "clips", "markers"} \subseteq DOMAIN data
  THEN [tracks |-> parsedArray(data.tracks, TrackKeys),
        clips |-> parsedArray(data.clips, ClipKeys),
        markers |-> parsedArray(data.markers, MarkerKeys)]
  ELSE DefaultProject

\* the project importJson hands to setProject
importJson(data) ==
  [tracks |-> IF "tracks" \in DOMAIN data THEN parsedArray(data.tracks, TrackKeys) ELSE DEFAULT_TRACKS,
   clips |-> IF "clips" \in DOMAIN data THEN parsedArray(data.clips, ClipKeys) ELSE DEFAULT_CLIPS,
   markers |-> IF "markers" \in DOMAIN data THEN parsedArray(data.markers, MarkerKeys) ELSE DEFAULT_MARKERS]

-----------------------------------------------------------------------------
(* State after construction *)

NoMarquee == [x1 |-> Undef, x2 |-> Undef, y1 |-> Undef, y2 |-> Undef]
NoSnap == [position |-> Undef, label |-> NullLabel]
\* the pointer has not moved since pointer-down
NoFrame == [moved |-> FALSE, deltaSec |-> 0]
\* dragStartedState.current before the first pointer-down (null)
NullState == [tracks |-> <<>>, clips |-> <<>>, markers |-> <<>>]

InitProgram ==
  /\ project = DefaultProject
  /\ history = <<DefaultProject>>
  /\ pointer = 0
  /\ selection = [clipIds |-> <<>>, marquee |-> NoMarquee]
  /\ snap = NoSnap
  /\ dragRef = NoDrag
  /\ dragStartedState = NullState
  /\ allowOverlap = FALSE
  /\ rippleEdit = FALSE
  /\ rollEdit = FALSE
  /\ crashed = FALSE
  /\ frame = NoFrame
  /\ exportDoc = NoDoc
  /\ playhead = 450
  /\ playing = FALSE
  /\ assets = <<>>
  /\ probing = {}
  /\ sources = <<>>
  /\ loopEnabled = FALSE
  /\ loopRange = [start |-> 0, end |-> 800]
  /\ loopHandleRef = "null"
  /\ anchor = [pos |-> 0, time |-> 0]
  /\ currentTime = 0
  /\ calls = 0
  /\ starts = {}
  /\ sourcesBy = 0
  /\ live = {}
  /\ rafRef = 0
  /\ ticks = {}
  /\ ident = [hist |-> <<1>>, state |-> 1]
  /\ rendered = [canUndo |-> FALSE, canRedo |-> FALSE]

-----------------------------------------------------------------------------
(* Handlers *)

trackOf(p, trackId) == First(Filter(p.tracks, {t \in Range(p.tracks) : t.id = trackId}))

\* onMouseDown of a clip box: only the clips of unlocked tracks have the handler
StartClipDrag(i, mode, modifier) ==
  /\ ~crashed
  /\ i \in 1..Len(project.clips)
  /\ LET clip == project.clips[i]
         tr == trackOf(project, clip.track)
     IN  /\ tr # <<>>
         /\ ~Truthy(tr[1].locked)
         /\ dragRef' = [id |-> clip.id, mode |-> mode, origStart |-> clip.start,
                        origDuration |-> clip.duration]
         /\ snap' = [position |-> clip.start, label |-> TimeLabel]
         /\ dragStartedState' = project
         /\ selection' =
              IF modifier
              THEN [clipIds |-> IF clip.id \in Range(selection.clipIds)
                                THEN Filter(selection.clipIds, Range(selection.clipIds) \ {clip.id})
                                ELSE Append(selection.clipIds, clip.id),
                    marquee |-> NoMarquee]
              ELSE [clipIds |-> <<clip.id>>, marquee |-> NoMarquee]
  /\ frame' = NoFrame
  /\ UNCHANGED <<project, history, pointer, allowOverlap, rippleEdit, rollEdit, crashed,
                 exportDoc, mediaVars, ident>>
  /\ Render

\* onMove, clip drag branch: one pointer-move frame with displacement d
OnMove(d) ==
  /\ ~crashed
  /\ loopHandleRef = "null"
  /\ selection.marquee = NoMarquee
  /\ dragRef # NoDrag
  /\ LET current == FindClip(project.clips, dragRef.id)
     IN  /\ current # <<>>
         /\ LET trackId == current[1].track
                snaps == collectSnapPoints(project, trackId, dragRef.id)
                siblings == siblingsOf(project, trackId, dragRef.id)
                opts == [allowOverlap |-> allowOverlap, rollEdit |-> rollEdit,
                         rippleEdit |-> rippleEdit]
                res == onMoveUpdater(project, dragRef, d, siblings, snaps, trackId, opts)
            IN  IF res.throws
                THEN /\ crashed' = TRUE
                     /\ UNCHANGED <<project, snap, history, pointer, hookVars>>
                ELSE LET h == NoPushEntry(history, pointer, res.project)
                     IN  /\ project' = res.project
                         /\ history' = h.history
                         /\ pointer' = h.pointer
                         /\ ident' = identNoPush(ident, pointer)
                         /\ snap' = snapGhost(dragRef, d, snaps)
                         /\ UNCHANGED crashed
                         /\ Render
  /\ frame' = [moved |-> TRUE, deltaSec |-> d]
  /\ UNCHANGED <<selection, dragRef, dragStartedState, allowOverlap,
                 rippleEdit, rollEdit, exportDoc, mediaVars>>

\* onUp
OnUp ==
  /\ ~crashed
  /\ IF dragRef # NoDrag
     THEN LET h == pushCheckpoint(history, pointer)
          IN  /\ dragRef' = NoDrag
              /\ history' = h.history
              /\ pointer' = h.pointer
              /\ ident' = identCheckpoint(ident, pointer)
     ELSE UNCHANGED <<dragRef, history, pointer, ident>>
  /\ selection' = [selection EXCEPT !.marquee = NoMarquee]
  /\ snap' = NoSnap
  /\ loopHandleRef' = "null"
  /\ UNCHANGED <<project, dragStartedState, allowOverlap, rippleEdit, rollEdit, crashed,
                 frame, exportDoc, playhead, playing, assets, probing, sources, loopEnabled,
                 loopRange, asyncVars>>
  /\ Render

SetAllowOverlap(checked) ==
  /\ ~crashed
  /\ allowOverlap' = checked
  /\ UNCHANGED <<project, history, pointer, selection, snap, dragRef, dragStartedState,
                 rippleEdit, rollEdit, crashed, frame, exportDoc, mediaVars, ident>>
  /\ IF checked = allowOverlap THEN UNCHANGED rendered ELSE Render

SetRippleEdit(checked) ==
  /\ ~crashed
  /\ rippleEdit' = checked
  /\ UNCHANGED <<project, history, pointer, selection, snap, dragRef, dragStartedState,
                 allowOverlap, rollEdit, crashed, frame, exportDoc, mediaVars, ident>>
  /\ IF checked = rippleEdit THEN UNCHANGED rendered ELSE Render

SetRollEdit(checked) ==
  /\ ~crashed
  /\ rollEdit' = checked
  /\ UNCHANGED <<project, history, pointer, selection, snap, dragRef, dragStartedState,
                 allowOverlap, rippleEdit, crashed, frame, exportDoc, mediaVars, ident>>
  /\ IF checked = rollEdit THEN UNCHANGED rendered ELSE Render

\* commit(next) with the default { push: true }
CommitPush(next) ==
  LET h == PushEntry(history, pointer, next)
  IN  /\ project' = next
      /\ history' = h.history
      /\ pointer' = h.pointer
      /\ ident' = identPush(ident, pointer)
      /\ Render

ExportJson ==
  /\ ~crashed
  /\ exportDoc' = exportJson(project)
  /\ UNCHANGED <<project, history, pointer, selection, snap, dragRef, dragStartedState,
                 allowOverlap, rippleEdit, rollEdit, crashed, frame, mediaVars, hookVars>>

\* importJson, when file.text() has resolved with the document data
ImportJson(data) ==
  /\ ~crashed
  /\ CommitPush(importJson(data))
  /\ UNCHANGED <<selection, snap, dragRef, dragStartedState, allowOverlap, rippleEdit,
                 rollEdit, crashed, frame, exportDoc, mediaVars>>

\* the restore effect of the first render, when the storage holds the document
\* data: the same three fields with the same defaults, handed to setProject
RestoreSaved(data) ==
  /\ ~crashed
  /\ CommitPush(importJson(data))
  /\ UNCHANGED <<selection, snap, dragRef, dragStartedState, allowOverlap, rippleEdit,
                 rollEdit, crashed, frame, exportDoc, mediaVars>>

\* undo / redo of the history store
\* setState(entry): React skips the render when the entry is the object that is the state
SetStateToEntry ==
  /\ project' = history[pointer' + 1]
  /\ ident' = identEntry(ident, pointer')
  /\ IF ident'.state = ident.state THEN UNCHANGED rendered ELSE Render

Undo ==
  /\ ~crashed
  /\ UNCHANGED <<history, selection, snap, dragRef, dragStartedState, allowOverlap,
                 rippleEdit, rollEdit, crashed, frame, exportDoc, mediaVars>>
  /\ IF pointer = 0
     THEN UNCHANGED <<pointer, project, hookVars>>
     ELSE /\ pointer' = pointer - 1
          /\ SetStateToEntry

Redo ==
  /\ ~crashed
  /\ UNCHANGED <<history, selection, snap, dragRef, dragStartedState, allowOverlap,
                 rippleEdit, rollEdit, crashed, frame, exportDoc, mediaVars>>
  /\ IF pointer >= Len(history) - 1
     THEN UNCHANGED <<pointer, project, hookVars>>
     ELSE /\ pointer' = pointer + 1
          /\ SetStateToEntry

\* onKey, ArrowLeft / ArrowRight: nudge the selected clips, then pushCheckpoint
KeyArrow(key, shiftKey) ==
  /\ ~crashed
  /\ LET step == IF shiftKey THEN 50 ELSE 10
         n == NoPushEntry(history, pointer, project)
         h == pushCheckpoint(n.history, n.pointer)
     IN  /\ project' = [project EXCEPT !.clips =
                          [i \in 1..Len(project.clips) |->
                            LET c == project.clips[i]
                            IN  IF c.id \in Range(selection.clipIds)
                                THEN [c EXCEPT !.start =
                                        Max(0, c.start + (IF key = "ArrowLeft" THEN -step ELSE step))]
                                ELSE c]]
         /\ history' = h.history
         /\ pointer' = h.pointer
         /\ ident' = identCheckpoint(identNoPush(ident, pointer), n.pointer)
  /\ UNCHANGED <<selection, snap, dragRef, dragStartedState, allowOverlap, rippleEdit,
                 rollEdit, crashed, frame, exportDoc, mediaVars>>
  /\ Render

-----------------------------------------------------------------------------
(* Track flags, asset library and placement *)

\* !flag of an optional boolean
Not(flag) == IF Truthy(flag) THEN "false" ELSE "true"

\* the M button: mute: !t.mute, solo: t.solo && t.mute ? false : t.solo
muteToggled(t) ==
  [t EXCEPT !.mute = Not(t.mute),
            !.solo = IF Truthy(t.solo) /\ Truthy(t.mute) THEN "false" ELSE t.solo]

\* the S button: solo: !t.solo, mute: t.mute && !t.solo ? false : t.mute
soloToggled(t) ==
  [t EXCEPT !.solo = Not(t.solo),
            !.mute = IF Truthy(t.mute) /\ ~Truthy(t.solo) THEN "false" ELSE t.mute]

\* the lock button: locked: !t.locked
lockToggled(t) == [t EXCEPT !.locked = Not(t.locked)]

\* the height button: height: t.height === 'compact' ? 'normal' : 'compact'
heightToggled(t) == [t EXCEPT !.height = IF t.height = "compact" THEN "normal" ELSE "compact"]

\* the track a button of its header makes of track t
flagToggled(t, button) ==
  CASE button = "mute" -> muteToggled(t)
    [] button = "solo" -> soloToggled(t)
    [] button = "lock" -> lockToggled(t)
    [] button = "height" -> heightToggled(t)

\* prev.tracks.map(t => t.id === track.id ? { ...t, <the button's change> } : t)
MapTrack(p, trackId, button) ==
  [p EXCEPT !.tracks = [i \in 1..Len(p.tracks) |->
                          IF p.tracks[i].id = trackId THEN flagToggled(p.tracks[i], button)
                          ELSE p.tracks[i]]]

ToggleMute(trackId) ==
  /\ ~crashed
  /\ CommitPush(MapTrack(project, trackId, "mute"))
  /\ UNCHANGED <<selection, snap, dragRef, dragStartedState, allowOverlap, rippleEdit,
                 rollEdit, crashed, frame, exportDoc, mediaVars>>

ToggleSolo(trackId) ==
  /\ ~crashed
  /\ CommitPush(MapTrack(project, trackId, "solo"))
  /\ UNCHANGED <<selection, snap, dragRef, dragStartedState, allowOverlap, rippleEdit,
                 rollEdit, crashed, frame, exportDoc, mediaVars>>

ToggleLock(trackId) ==
  /\ ~crashed
  /\ CommitPush(MapTrack(project, trackId, "lock"))
  /\ UNCHANGED <<selection, snap, dragRef, dragStartedState, allowOverlap, rippleEdit,
                 rollEdit, crashed, frame, exportDoc, mediaVars>>

ToggleHeight(trackId) ==
  /\ ~crashed
  /\ CommitPush(MapTrack(project, trackId, "height"))
  /\ UNCHANGED <<selection, snap, dragRef, dragStartedState, allowOverlap, rippleEdit,
                 rollEdit, crashed, frame, exportDoc, mediaVars>>

\* the stub asset handleAssetUpload makes of a file: the duration is
\* Math.max(3, Math.min(20, size / 1_000_000)), the url a fresh object URL; the id
\* `${now}-${idx}-${f.name}` is written as the file name alone
Asset(id, type, duration) ==
  [id |-> id, name |-> id, type |-> type, duration |-> duration, url |-> "blob:" \o id,
   waveform |-> "undefined", thumb |-> "undefined"]

\* handleAssetUpload up to its first await, for one file
UploadAsset(id, type, duration) ==
  /\ ~crashed
  /\ assets' = Append(assets, Asset(id, type, duration))
  /\ probing' = probing \cup {id}
  /\ UNCHANGED <<project, history, pointer, selection, snap, dragRef, dragStartedState,
                 allowOverlap, rippleEdit, rollEdit, crashed, frame, exportDoc,
                 playhead, playing, sources, loopVars, asyncVars, ident>>
  /\ Render

\* { ...a, duration, waveform: waveform ?? a.waveform, thumb: thumb ?? a.thumb }
probed(a, duration, waveform, thumb) ==
  [a EXCEPT !.duration = duration,
            !.waveform = IF waveform = "null" THEN a.waveform ELSE waveform,
            !.thumb = IF thumb = "null" THEN a.thumb ELSE thumb]

\* handleAssetUpload after its await: the metadata of the file of asset id is in
ProbeDone(id, duration, waveform, thumb) ==
  /\ ~crashed
  /\ id \in probing
  /\ probing' = probing \ {id}
  /\ assets' = [i \in 1..Len(assets) |->
                  IF assets[i].id = id THEN probed(assets[i], duration, waveform, thumb)
                  ELSE assets[i]]
  /\ UNCHANGED <<project, history, pointer, selection, snap, dragRef, dragStartedState,
                 allowOverlap, rippleEdit, rollEdit, crashed, frame, exportDoc,
                 playhead, playing, sources, loopVars, asyncVars, ident>>
  /\ Render

\* asset.waveform ?? null, asset.thumb ?? null
OrNull(v) == IF v = "undefined" THEN "null" ELSE v

\* Math.max(...trackClips.map(c => c.start + c.duration)), 0 for an empty track
RECURSIVE MaxEnd(_)
MaxEnd(trackClips) ==
  IF trackClips = <<>> THEN 0
  ELSE IF Len(trackClips) = 1 THEN ClipEnd(trackClips[1])
       ELSE Max(ClipEnd(Head(trackClips)), MaxEnd(Tail(trackClips)))

\* a placed clip that takes a fixed length instead of the asset's duration
placedClipFixedLength(prev, asset, trackId) ==
  LET trackClips == Filter(prev.clips, {c \in Range(prev.clips) : c.track = trackId})
  IN  [id |-> asset.id \o "-clip", title |-> asset.name, track |-> trackId,
       start |-> MaxEnd(trackClips) + 10, duration |-> 500,
       url |-> asset.url, assetType |-> asset.type,
       waveform |-> OrNull(asset.waveform), thumb |-> OrNull(asset.thumb),
       mediaDuration |-> asset.duration, mediaOffset |-> 0]

\* a placed clip that starts right at the largest end, without the 0.1 s gap
placedClipNoGap(prev, asset, trackId) ==
  LET trackClips == Filter(prev.clips, {c \in Range(prev.clips) : c.track = trackId})
  IN  [id |-> asset.id \o "-clip", title |-> asset.name, track |-> trackId,
       start |-> MaxEnd(trackClips), duration |-> asset.duration,
       url |-> asset.url, assetType |-> asset.type,
       waveform |-> OrNull(asset.waveform), thumb |-> OrNull(asset.thumb),
       mediaDuration |-> asset.duration, mediaOffset |-> 0]

\* the clip placeAssetOnTrack appends
placedClip(prev, asset, trackId) ==
  LET trackClips == Filter(prev.clips, {c \in Range(prev.clips) : c.track = trackId})
  IN  [id |-> asset.id \o "-clip", title |-> asset.name, track |-> trackId,
       start |-> MaxEnd(trackClips) + 10, duration |-> asset.duration,
       url |-> asset.url, assetType |-> asset.type,
       waveform |-> OrNull(asset.waveform), thumb |-> OrNull(asset.thumb),
       mediaDuration |-> asset.duration, mediaOffset |-> 0]

\* setProject(updater) with push, then pushCheckpoint() in the same handler.  React
\* runs the updater at once when the component has no update pending (eager), and
\* otherwise at the next render, after pushCheckpoint has run.
CommitThenCheckpoint(next, eager) ==
  LET first == IF eager THEN PushEntry(history, pointer, next)
               ELSE pushCheckpoint(history, pointer)
      second == IF eager THEN pushCheckpoint(first.history, first.pointer)
                ELSE PushEntry(first.history, first.pointer, next)
      firstIdent == IF eager THEN identPush(ident, pointer)
                    ELSE identCheckpoint(ident, pointer)
  IN  /\ project' = next
      /\ history' = second.history
      /\ pointer' = second.pointer
      /\ ident' = IF eager THEN identCheckpoint(firstIdent, first.pointer)
                  ELSE identPush(firstIdent, first.pointer)
      /\ Render

\* the Send to track button of an asset
PlaceAssetOnTrack(a, trackId) ==
  /\ ~crashed
  /\ a \in 1..Len(assets)
  /\ \E eager \in BOOLEAN :
       CommitThenCheckpoint(
         [project EXCEPT !.clips = Append(project.clips, placedClip(project, assets[a], trackId))],
         eager)
  /\ UNCHANGED <<selection, snap, dragRef, dragStartedState, allowOverlap, rippleEdit,
                 rollEdit, crashed, frame, exportDoc, mediaVars>>

\* the clip the lane's onDrop appends: id `${asset.id}-drop-${Date.now()}`, start at
\* the time under the pointer
droppedClip(asset, trackId, seconds, now) ==
  [id |-> asset.id \o "-drop-" \o ToString(now), title |-> asset.name, track |-> trackId,
   start |-> clampTime(seconds), duration |-> asset.duration,
   url |-> asset.url, assetType |-> asset.type,
   waveform |-> OrNull(asset.waveform), thumb |-> OrNull(asset.thumb),
   mediaDuration |-> asset.duration, mediaOffset |-> 0]

\* onDrop of a track lane at clock reading `now`: the handler returns at once on a
\* locked track
DropOnLane(a, trackId, seconds, now) ==
  /\ ~crashed
  /\ a \in 1..Len(assets)
  /\ trackOf(project, trackId) # <<>>
  /\ IF Truthy(trackOf(project, trackId)[1].locked)
     THEN UNCHANGED <<project, history, pointer, hookVars>>
     ELSE \E eager \in BOOLEAN :
            CommitThenCheckpoint(
              [project EXCEPT !.clips =
                 Append(project.clips, droppedClip(assets[a], trackId, seconds, now))],
              eager)
  /\ UNCHANGED <<selection, snap, dragRef, dragStartedState, allowOverlap, rippleEdit,
                 rollEdit, crashed, frame, exportDoc, mediaVars>>

\* onKey, Delete / Backspace: nothing happens while no clip is selected
KeyDelete ==
  /\ ~crashed
  /\ selection.clipIds # <<>>
  /\ \E eager \in BOOLEAN :
       CommitThenCheckpoint(
         [project EXCEPT !.clips =
            Filter(project.clips,
                   {c \in Range(project.clips) : c.id \notin Range(selection.clipIds)})],
         eager)
  /\ selection' = [clipIds |-> <<>>, marquee |-> NoMarquee]
  /\ UNCHANGED <<snap, dragRef, dragStartedState, allowOverlap, rippleEdit, rollEdit,
                 crashed, frame, exportDoc, mediaVars>>

\* `${Date.now()}-${idx}`
cloneId(now, idx) == ToString(now) \o "-" \o ToString(idx)

\* the clones of selection.clipIds[i..], idx = i - 1 being the index forEach passes
RECURSIVE clonesOf(_, _, _, _)
clonesOf(prev, clipIds, i, now) ==
  IF i > Len(clipIds) THEN <<>>
  ELSE LET source == FindClip(prev.clips, clipIds[i])
           idx == i - 1
       IN  IF source = <<>>
           THEN clonesOf(prev, clipIds, i + 1, now)
           ELSE << [source[1] EXCEPT !.id = cloneId(now, idx),
                                     !.start = clampTime(source[1].start + 50 + idx * 10)] >>
                \o clonesOf(prev, clipIds, i + 1, now)

\* onKey, ctrl/cmd + D at clock reading `now`: returns while no clip is selected
KeyDuplicate(now) ==
  /\ ~crashed
  /\ selection.clipIds # <<>>
  /\ \E eager \in BOOLEAN :
       CommitThenCheckpoint(
         [project EXCEPT !.clips = project.clips \o clonesOf(project, selection.clipIds, 1, now)],
         eager)
  /\ UNCHANGED <<selection, snap, dragRef, dragStartedState, allowOverlap, rippleEdit,
                 rollEdit, crashed, frame, exportDoc, mediaVars>>

-----------------------------------------------------------------------------
(* Playback *)

\* (c.assetType || '').startsWith('audio')
AudioTypes == {"audio/wav"}
IsAudioClip(c) == c.assetType \in AudioTypes

\* tracks.some(t => t.solo)
anySolo(p) == \E i \in 1..Len(p.tracks) : Truthy(p.tracks[i].solo)

\* a track test that looks at the mute flag only and forgets solo
trackPlaysMuteOnly(p, tr) ==
  /\ ~Truthy(tr.locked)
  /\ ~Truthy(tr.mute)

\* the track test of the audioClips filter of startPlayback
trackPlays(p, tr) ==
  /\ ~Truthy(tr.locked)
  /\ IF anySolo(p) THEN tr.solo = "true" ELSE ~Truthy(tr.mute)

\* clips.filter(...) of startPlayback
audioClips(p) ==
  Filter(p.clips, {c \in Range(p.clips) :
                     /\ IsAudioClip(c)
                     /\ trackOf(p, c.track) # <<>>
                     /\ trackPlays(p, trackOf(p, c.track)[1])})

\* the part of the media startPlayback plays of a clip: offset and length.  Every
\* audio clip explored was placed from an asset and carries its mediaDuration, so
\* the length of the decoded buffer is not needed.
sourceOffset(c, from) == Max(0, from - c.start + OrElse(c.mediaOffset, 0))
sourceDur(c, from) == Max(0, Min(c.mediaDuration - sourceOffset(c, from), c.duration))

\* the sources startPlayback creates: none for a clip without url (no buffer) or
\* with nothing left to play (dur <= 0)
scheduledSources(p, from) ==
  LET picked == audioClips(p)
      started == Filter(picked, {c \in Range(picked) : c.url # "undefined" /\ sourceDur(c, from) > 0})
  IN  [i \in 1..Len(started) |->
         [clip |-> started[i], offset |-> sourceOffset(started[i], from),
          dur |-> sourceDur(started[i], from),
          delay |-> Max(0, started[i].start - from)]]

\* what the functions of one render see: startPlayback and its tick read playhead,
\* loopEnabled, loopRange, clips and the track index of the render that made them
Closure(ph, enabled, range, p) ==
  [playhead |-> ph, loopEnabled |-> enabled, loopRange |-> range, project |-> p]

\* stopPlayback: the sources of sourcesRef are stopped, the frame request of rafRef
\* is cancelled; sources and requests no ref holds are out of its reach
stoppedLive(lv, by) == {l \in lv : l.call # by}
cancelled(tk, raf) == {t \in tk : t.call # raf}

stopPlayback ==
  /\ sources' = <<>>
  /\ sourcesBy' = 0
  /\ live' = stoppedLive(live, sourcesBy)
  /\ ticks' = cancelled(ticks, rafRef)
  /\ rafRef' = 0

\* the playback effect after a render that changed playing, loopEnabled or
\* loopRange: the cleanup of the last run (stopPlayback), then startPlayback() up
\* to its first await, or stopPlayback again
\* (the effect also runs when clips changes; clips are edited only while playback
\* is stopped and no call is waiting, where its stopPlayback finds nothing to stop)
PlaybackEffect ==
  /\ stopPlayback
  /\ IF playing'
     THEN /\ calls' = calls + 1
          /\ starts' = starts \cup
               {[call |-> calls + 1, stage |-> "context",
                 env |-> Closure(playhead', loopEnabled', loopRange', project')]}
     ELSE UNCHANGED <<calls, starts>>
  /\ UNCHANGED <<anchor, currentTime>>

\* the play button or the space key while stopped, with the startPlayback call of
\* the effect run to its end before anything else happens: setPlaying(true),
\* stopPlayback, the anchors, the sources and the first frame request
Play ==
  /\ ~crashed
  /\ ~playing
  /\ playing' = TRUE
  /\ sources' = scheduledSources(project, playhead)
  /\ calls' = calls + 1
  /\ sourcesBy' = calls'
  /\ live' = stoppedLive(live, sourcesBy) \cup
               {[src |-> sources'[i], call |-> calls'] : i \in 1..Len(sources')}
  /\ anchor' = [pos |-> playhead, time |-> currentTime]
  /\ rafRef' = calls'
  /\ ticks' = cancelled(ticks, rafRef) \cup
                {[call |-> calls', env |-> Closure(playhead, loopEnabled, loopRange, project)]}
  /\ UNCHANGED <<project, history, pointer, selection, snap, dragRef, dragStartedState,
                 allowOverlap, rippleEdit, rollEdit, crashed, frame, exportDoc,
                 playhead, assets, probing, loopVars, currentTime, starts, ident>>
  /\ Render

\* the play button, the space key or K while playing: the effect runs stopPlayback
Stop ==
  /\ ~crashed
  /\ playing
  /\ playing' = FALSE
  /\ stopPlayback
  /\ UNCHANGED <<project, history, pointer, selection, snap, dragRef, dragStartedState,
                 allowOverlap, rippleEdit, rollEdit, crashed, frame, exportDoc,
                 playhead, assets, probing, loopVars, anchor, currentTime, calls, starts, ident>>
  /\ Render

\* the play button or the space key while stopped: setPlaying(true), and the effect
\* calls startPlayback, which waits for the audio context
StartPlayback ==
  /\ ~crashed
  /\ ~playing
  /\ playing' = TRUE
  /\ UNCHANGED <<project, history, pointer, selection, snap, dragRef, dragStartedState,
                 allowOverlap, rippleEdit, rollEdit, crashed, frame, exportDoc,
                 playhead, assets, probing, loopVars, ident>>
  /\ PlaybackEffect
  /\ Render

\* startPlayback resumes with the audio context: stopPlayback, the anchors, and the
\* wait for the buffers of the audio clips
AfterContext(c) ==
  /\ ~crashed
  /\ \E call \in starts :
       /\ call.call = c
       /\ call.stage = "context"
       /\ stopPlayback
       /\ anchor' = [pos |-> call.env.playhead, time |-> currentTime]
       /\ starts' = (starts \ {call}) \cup {[call EXCEPT !.stage = "buffers"]}
  /\ UNCHANGED <<project, history, pointer, selection, snap, dragRef, dragStartedState,
                 allowOverlap, rippleEdit, rollEdit, crashed, frame, exportDoc,
                 playhead, playing, assets, probing, loopVars, currentTime, calls, hookVars>>

\* startPlayback resumes with the buffers: the sources are started from
\* playheadStartRef.current, sourcesRef is set and the first frame is requested
AfterBuffers(c) ==
  /\ ~crashed
  /\ \E call \in starts :
       /\ call.call = c
       /\ call.stage = "buffers"
       /\ sources' = scheduledSources(call.env.project, anchor.pos)
       /\ sourcesBy' = c
       /\ live' = live \cup {[src |-> sources'[i], call |-> c] : i \in 1..Len(sources')}
       /\ rafRef' = c
       /\ ticks' = ticks \cup {[call |-> c, env |-> call.env]}
       /\ starts' = starts \ {call}
  /\ UNCHANGED <<project, history, pointer, selection, snap, dragRef, dragStartedState,
                 allowOverlap, rippleEdit, rollEdit, crashed, frame, exportDoc,
                 playhead, playing, assets, probing, loopVars, anchor, currentTime, calls, hookVars>>

\* a playback that ends one tick of the clock past the timeline
stopPastEnd(env) == TOTAL_DURATION + 1

\* stopAt: where playback ends
stopAt(env) == IF env.loopEnabled THEN env.loopRange.end ELSE TOTAL_DURATION

\* tick: a requested frame runs, dt after the last reading of the audio clock
Tick(c, dt) ==
  /\ ~crashed
  /\ currentTime' = currentTime + dt
  /\ \E t \in ticks :
       /\ t.call = c
       /\ LET nextPos == anchor.pos + (currentTime' - anchor.time)
              end == stopAt(t.env)
          IN  IF t.env.loopEnabled /\ nextPos >= t.env.loopRange.end
              THEN /\ playhead' = t.env.loopRange.start
                   /\ anchor' = [pos |-> t.env.loopRange.start, time |-> currentTime']
                   /\ calls' = calls + 1
                   /\ starts' = starts \cup
                        {[call |-> calls + 1, stage |-> "context", env |-> t.env]}
                   /\ ticks' = ticks \ {t}
                   /\ UNCHANGED <<playing, sources, sourcesBy, live, rafRef>>
              ELSE IF ~t.env.loopEnabled /\ nextPos >= end
              THEN /\ playhead' = end
                   /\ playing' = FALSE
                   /\ IF playing
                      THEN /\ sources' = <<>>
                           /\ sourcesBy' = 0
                           /\ live' = stoppedLive(live, sourcesBy)
                           /\ ticks' = cancelled(ticks \ {t}, rafRef)
                           /\ rafRef' = 0
                      ELSE /\ ticks' = ticks \ {t}
                           /\ UNCHANGED <<sources, sourcesBy, live, rafRef>>
                   /\ UNCHANGED <<anchor, calls, starts>>
              ELSE /\ playhead' = clampTime(nextPos)
                   /\ rafRef' = c
                   /\ UNCHANGED <<playing, anchor, calls, starts, sources, sourcesBy,
                                  live, ticks>>
  /\ UNCHANGED <<project, history, pointer, selection, snap, dragRef, dragStartedState,
                 allowOverlap, rippleEdit, rollEdit, crashed, frame, exportDoc,
                 assets, probing, loopVars, ident>>
  /\ IF playhead' = playhead /\ playing' = playing THEN UNCHANGED rendered ELSE Render

\* the Loop checkbox
SetLoopEnabled(checked) ==
  /\ ~crashed
  /\ loopEnabled' = checked
  /\ UNCHANGED <<project, history, pointer, selection, snap, dragRef, dragStartedState,
                 allowOverlap, rippleEdit, rollEdit, crashed, frame, exportDoc,
                 playhead, playing, assets, probing, loopRange, loopHandleRef, ident>>
  /\ IF checked = loopEnabled
     THEN UNCHANGED <<sources, asyncVars, rendered>>
     ELSE PlaybackEffect /\ Render

\* the loop start and end inputs: a new range object each time
SetLoopRange(range) ==
  /\ ~crashed
  /\ loopRange' = range
  /\ UNCHANGED <<project, history, pointer, selection, snap, dragRef, dragStartedState,
                 allowOverlap, rippleEdit, rollEdit, crashed, frame, exportDoc,
                 playhead, playing, assets, probing, loopEnabled, loopHandleRef, ident>>
  /\ PlaybackEffect
  /\ Render

\* the skip buttons, the scrubber, a ruler click: setPlayhead(clampTime(value))
Seek(value) ==
  /\ ~crashed
  /\ playhead' = clampTime(value)
  /\ UNCHANGED <<project, history, pointer, selection, snap, dragRef, dragStartedState,
                 allowOverlap, rippleEdit, rollEdit, crashed, frame, exportDoc,
                 playing, assets, probing, sources, loopVars, asyncVars, ident>>
  /\ IF playhead' = playhead THEN UNCHANGED rendered ELSE Render

-----------------------------------------------------------------------------
(* Marquee selection and loop handles *)

\* pixels per second at the initial zoom: 80 * 1.4
pxPerSec == 112
\* (a time in centiseconds and a pixel position x compare as time * pxPerSec and
\* x * 100)
\* the lanes the marquee branch of onMove assumes: 76 px from one lane top to the
\* next, each lane 70 px high
LaneStride == 76
LaneHeight == 70

\* tracks.findIndex(t => t.id === id): 0-based, -1 when there is no such track
findIndex(tracks, id) ==
  IF \E i \in 1..Len(tracks) : tracks[i].id = id
  THEN (CHOOSE i \in 1..Len(tracks) :
          /\ tracks[i].id = id
          /\ \A j \in 1..(i - 1) : tracks[j].id # id) - 1
  ELSE -1

\* the clip test of the marquee branch; box is the rectangle with x1 <= x2, y1 <= y2
inMarquee(p, c, box) ==
  LET clipX1 == c.start * pxPerSec
      clipX2 == (c.start + c.duration) * pxPerSec
      laneTop == findIndex(p.tracks, c.track) * LaneStride
      laneBottom == laneTop + LaneHeight
  IN  /\ clipX2 >= box.x1 * 100
      /\ clipX1 <= box.x2 * 100
      /\ laneBottom >= box.y1
      /\ laneTop <= box.y2

\* [Math.min(x1, x2), Math.max(x1, x2)] and the same for y
ordered(box) ==
  [x1 |-> Min(box.x1, box.x2), x2 |-> Max(box.x1, box.x2),
   y1 |-> Min(box.y1, box.y2), y2 |-> Max(box.y1, box.y2)]

\* picked: the ids of the clips the rectangle meets, in the order of clips
picked(p, box) ==
  LET hit == Filter(p.clips, {c \in Range(p.clips) : inMarquee(p, c, ordered(box))})
  IN  [i \in 1..Len(hit) |-> hit[i].id]

\* onMouseDown of the tracks container, which a clip of an unlocked track keeps
\* from it (stopPropagation): the pointer is at (x, y) of the container
startMarquee(x, y) ==
  /\ ~crashed
  /\ selection' = [clipIds |-> <<>>, marquee |-> [x1 |-> x, x2 |-> x, y1 |-> y, y2 |-> y]]
  /\ UNCHANGED <<project, history, pointer, snap, dragRef, dragStartedState, allowOverlap,
                 rippleEdit, rollEdit, crashed, frame, exportDoc, mediaVars, ident>>
  /\ Render

\* onMove, marquee branch: the pointer is at (x, y) of the container
OnMoveMarquee(x, y) ==
  /\ ~crashed
  /\ loopHandleRef = "null"
  /\ selection.marquee # NoMarquee
  /\ LET currentBox == [selection.marquee EXCEPT !.x2 = x, !.y2 = y]
     IN  selection' = [clipIds |-> picked(project, currentBox), marquee |-> currentBox]
  /\ UNCHANGED <<project, history, pointer, snap, dragRef, dragStartedState, allowOverlap,
                 rippleEdit, rollEdit, crashed, frame, exportDoc, mediaVars, ident>>
  /\ Render

\* onMouseDown of a loop handle of the minimap
startLoopHandle(handle) ==
  /\ ~crashed
  /\ loopHandleRef' = handle
  /\ UNCHANGED <<project, history, pointer, selection, snap, dragRef, dragStartedState,
                 allowOverlap, rippleEdit, rollEdit, crashed, frame, exportDoc,
                 playhead, playing, assets, probing, sources, loopEnabled, loopRange, asyncVars,
                 hookVars>>

\* the range the loop branch of onMove makes: the handle follows the pointer, kept
\* 0.2 s from the other end
loopRangeMoved(range, handle, time) ==
  IF handle = "loop-start"
  THEN [range EXCEPT !.start = Min(time, range.end - 20)]
  ELSE [range EXCEPT !.end = Max(time, range.start + 20)]

\* onMove, loop-handle branch: the pointer is over the minimap at this time
OnMoveLoop(time) ==
  /\ ~crashed
  /\ loopHandleRef # "null"
  /\ loopRange' = loopRangeMoved(loopRange, loopHandleRef, clampTime(time))
  /\ UNCHANGED <<project, history, pointer, selection, snap, dragRef, dragStartedState,
                 allowOverlap, rippleEdit, rollEdit, crashed, frame, exportDoc,
                 playhead, playing, assets, probing, loopEnabled, loopHandleRef, ident>>
  /\ PlaybackEffect
  /\ Render

-----------------------------------------------------------------------------
(* Specification of the edit controller: pointer gestures on clips, after the
   three edit flags were set and, possibly, a saved project was imported *)

\* pointer events (down, move, up) explored per run
MaxSteps == 4

\* displacements of a pointer-move frame, in centiseconds
Deltas == {-350, 0, 50, 900}

\* the clips a pointer-down is explored on: the two clips that share track v1,
\* and c4, alone on its track
DragTargets == {"c1", "c2", "c4"}

\* a saved project in which c1 ends exactly where c2 starts
AdjacentClips ==
  << Clip("c1", "Intro", "v1", 0, 600),
     Clip("c2", "Scene A", "v1", 600, 800),
     Clip("c3", "Lower Third", "v2", 670, 400),
     Clip("c4", "Chorus", "a1", 200, 1200),
     Clip("c5", "Steps", "a2", 400, 550) >>

SavedDocs ==
  { exportJson([tracks |-> DEFAULT_TRACKS, clips |-> AdjacentClips, markers |-> DEFAULT_MARKERS]) }

NoScenario ==
  [phase |-> "off", p0 |-> NullState, final |-> NullState, edits |-> 0, undos |-> 0,
   redos |-> 0, op |-> "none", ptr0 |-> 0, hist0 |-> <<>>, sel0 |-> <<>>,
   shown0 |-> [canUndo |-> FALSE, canRedo |-> FALSE], loopedAt |-> Undef,
   doc |-> NoDoc, args |-> NoDoc]
NoProbe ==
  [stage |-> "none", candidate |-> 0, snaps |-> <<>>, once |-> Undef, twice |-> Undef,
   picked |-> [time |-> Undef, label |-> NullLabel]]

InitObservers ==
  /\ scn = NoScenario
  /\ probe = NoProbe
  /\ budget = 0

Init == InitProgram /\ InitObservers

Idle == dragRef = NoDrag

PointerDown ==
  /\ Idle
  /\ budget < MaxSteps
  /\ \E i \in 1..Len(project.clips), mode \in Modes :
       project.clips[i].id \in DragTargets /\ StartClipDrag(i, mode, FALSE)
  /\ budget' = budget + 1
  /\ UNCHANGED <<scn, probe>>

PointerMove ==
  /\ budget < MaxSteps
  /\ \E d \in Deltas : OnMove(d)
  /\ budget' = budget + 1
  /\ UNCHANGED <<scn, probe>>

PointerUp ==
  /\ ~Idle
  /\ budget < MaxSteps
  /\ OnUp
  /\ budget' = budget + 1
  /\ UNCHANGED <<scn, probe>>

SetFlags ==
  /\ Idle
  /\ budget = 0
  /\ \E checked \in BOOLEAN :
       SetAllowOverlap(checked) \/ SetRippleEdit(checked) \/ SetRollEdit(checked)
  /\ UNCHANGED <<scn, probe, budget>>

LoadSaved ==
  /\ budget = 0
  /\ pointer = 0
  /\ \E data \in SavedDocs : ImportJson(data)
  /\ UNCHANGED <<scn, probe, budget>>

Next == PointerDown \/ PointerMove \/ PointerUp \/ SetFlags \/ LoadSaved

Spec == Init /\ [][Next]_vars

-----------------------------------------------------------------------------
(* Properties of the edit controller, checked under Spec *)

\* no two clips of one track have intersecting intervals [start, start+duration)
NoOverlap(clips) ==
  \A i, j \in 1..Len(clips) :
    (i < j /\ clips[i].track = clips[j].track)
      => ~(clips[i].start < ClipEnd(clips[j]) /\ clips[j].start < ClipEnd(clips[i]))

\* the dragged clip as it is now, and the clips as they were at pointer-down
Dragged == FindClip(project.clips, dragRef.id)[1]
AtDown == dragStartedState.clips
InGesture == dragRef # NoDrag /\ Len(AtDown) = Len(project.clips)

\* C1: with allow-overlap off and a project without overlaps at the start, no two
\* clips of one track overlap once a clip drag is completed (pointer is up again).
C1_NoOverlapAfterDrag ==
  (~allowOverlap /\ Idle /\ ~crashed) => NoOverlap(project.clips)

\* C2: every clip lies inside the timeline after every pointer-move frame:
\* start >= 0 and start + duration <= TOTAL_DURATION.
C2_InsideTimeline ==
  \A i \in 1..Len(project.clips) :
    project.clips[i].start >= 0 /\ ClipEnd(project.clips[i]) <= TOTAL_DURATION

\* C3: every clip has duration >= MIN_CLIP after every pointer-move frame of a
\* drag in any mode, the siblings of the dragged clip included.
C3_MinDuration ==
  \A i \in 1..Len(project.clips) : project.clips[i].duration >= MIN_CLIP

\* a trim-start frame far to the right has floored the dragged clip at MIN_CLIP
C3_TrimFloored ==
  /\ InGesture
  /\ dragRef.mode = "trim-start"
  /\ frame.moved
  /\ dragRef.origDuration > MIN_CLIP
  /\ frame.deltaSec > dragRef.origDuration
  /\ Dragged.duration = MIN_CLIP

\* C6: during a move drag with ripple on, when the dragged clip's start has changed
\* by D since pointer-down, every other clip of its track that started at or after
\* the dragged clip's original start has its start changed by exactly D, and every
\* other clip is as it was at pointer-down.
C6_RippleMoveExact ==
  (InGesture /\ dragRef.mode = "move" /\ rippleEdit /\ frame.moved /\ ~crashed) =>
    LET D == Dragged.start - dragRef.origStart
    IN  \A i \in 1..Len(AtDown) :
          AtDown[i].id # dragRef.id =>
            IF AtDown[i].track = Dragged.track /\ AtDown[i].start >= dragRef.origStart
            THEN project.clips[i] = [AtDown[i] EXCEPT !.start = AtDown[i].start + D]
            ELSE project.clips[i] = AtDown[i]

\* the clip of the dragged clip's track that ended exactly at its start at pointer-down
AdjacentBefore(i) ==
  /\ AtDown[i].id # dragRef.id
  /\ AtDown[i].track = Dragged.track
  /\ ClipEnd(AtDown[i]) = dragRef.origStart
\* the clip of the dragged clip's track that started exactly at its end at pointer-down
AdjacentAfter(i) ==
  /\ AtDown[i].id # dragRef.id
  /\ AtDown[i].track = Dragged.track
  /\ AtDown[i].start = dragRef.origStart + dragRef.origDuration

\* C7: with roll on, a pointer-move frame of a trim of the boundary shared by two
\* adjacent clips is applied, and when it leaves both durations >= MIN_CLIP with the
\* boundary shifted by D, one duration has grown by D and the other shrunk by D since
\* pointer-down, the first clip's start and the second clip's end being unchanged.
C7_RollKeepsSpan ==
  (InGesture /\ rollEdit /\ frame.moved) =>
    \A i \in 1..Len(AtDown) :
      /\ (dragRef.mode = "trim-start" /\ AdjacentBefore(i)) =>
           /\ ~crashed
           /\ LET D == Dragged.start - dragRef.origStart
              IN  (project.clips[i].duration >= MIN_CLIP /\ Dragged.duration >= MIN_CLIP) =>
                    /\ project.clips[i].duration = AtDown[i].duration + D
                    /\ Dragged.duration = dragRef.origDuration - D
                    /\ project.clips[i].start = AtDown[i].start
                    /\ ClipEnd(Dragged) = dragRef.origStart + dragRef.origDuration
      /\ (dragRef.mode = "trim-end" /\ AdjacentAfter(i)) =>
           /\ ~crashed
           /\ LET D == ClipEnd(Dragged) - (dragRef.origStart + dragRef.origDuration)
              IN  (project.clips[i].duration >= MIN_CLIP /\ Dragged.duration >= MIN_CLIP) =>
                    /\ Dragged.duration = dragRef.origDuration + D
                    /\ project.clips[i].duration = AtDown[i].duration - D
                    /\ Dragged.start = dragRef.origStart
                    /\ ClipEnd(project.clips[i]) = ClipEnd(AtDown[i])

\* C10: in the default project with allow-overlap off, a move frame of c2 to a
\* candidate position earlier than c1's end puts c2 at c1's end plus the epsilon (6.01).
C10_MoveLeftStopsAtC1 ==
  ( /\ InGesture
    /\ dragStartedState = DefaultProject
    /\ ~allowOverlap
    /\ dragRef.id = "c2"
    /\ dragRef.mode = "move"
    /\ frame.moved
    /\ ~crashed
    /\ project.clips[1] = DEFAULT_CLIPS[1]
    /\ clampTime(dragRef.origStart + frame.deltaSec) < ClipEnd(DEFAULT_CLIPS[1]) )
  => Dragged.start = ClipEnd(DEFAULT_CLIPS[1]) + EPSILON

-----------------------------------------------------------------------------
(* Specification of the history store: clicks and move drags of clips, keyboard
   nudges of the selection, undo and redo.  The observer scn follows one
   scenario: N nudges from the project p0, then N undos, then N redos; of the
   last handler it keeps whether it called pushCheckpoint (op) and what the
   pointer was before it (ptr0). *)

\* handler calls explored per run
MaxHistSteps == 7
\* nudges of one scenario (the N of the round trip)
MaxEdits == 2

HistDeltas == {50}
HistTargets == {"c2", "c4"}
ArrowKeys == {"ArrowLeft", "ArrowRight"}

\* pointer-down on a clip body, outside a scenario
HDown ==
  /\ Idle
  /\ budget < MaxHistSteps
  /\ scn.phase = "off"
  /\ \E i \in 1..Len(project.clips) :
       project.clips[i].id \in HistTargets /\ StartClipDrag(i, "move", FALSE)
  /\ scn' = [scn EXCEPT !.op = "other", !.ptr0 = pointer]
  /\ budget' = budget + 1
  /\ UNCHANGED probe

HMove ==
  /\ budget < MaxHistSteps
  /\ \E d \in HistDeltas : OnMove(d)
  /\ scn' = [scn EXCEPT !.op = "other", !.ptr0 = pointer]
  /\ budget' = budget + 1
  /\ UNCHANGED probe

\* pointer-up of a click or a drag: onUp calls pushCheckpoint
HUp ==
  /\ ~Idle
  /\ budget < MaxHistSteps
  /\ OnUp
  /\ scn' = [scn EXCEPT !.op = "checkpoint", !.ptr0 = pointer]
  /\ budget' = budget + 1
  /\ UNCHANGED probe

\* an arrow key that changes the project: one edit of the scenario
HNudge ==
  /\ Idle
  /\ budget < MaxHistSteps
  /\ scn.phase \in {"off", "editing"}
  /\ scn.edits < MaxEdits
  /\ \E key \in ArrowKeys, shiftKey \in BOOLEAN : KeyArrow(key, shiftKey)
  /\ project' # project
  /\ scn' = [phase |-> "editing",
             p0 |-> IF scn.phase = "off" THEN project ELSE scn.p0,
             final |-> project',
             edits |-> scn.edits + 1, undos |-> 0, redos |-> 0,
             op |-> "checkpoint", ptr0 |-> pointer,
             hist0 |-> scn.hist0, shown0 |-> scn.shown0, sel0 |-> scn.sel0,
             loopedAt |-> scn.loopedAt, doc |-> scn.doc,
             args |-> scn.args]
  /\ budget' = budget + 1
  /\ UNCHANGED probe

\* Ctrl+Z outside a scenario
HUndoFree ==
  /\ Idle
  /\ budget < MaxHistSteps
  /\ scn.phase = "off"
  /\ Undo
  /\ scn' = [scn EXCEPT !.op = "other", !.ptr0 = pointer]
  /\ budget' = budget + 1
  /\ UNCHANGED probe

\* Ctrl+Z, one of the N undos of the scenario
HUndo ==
  /\ Idle
  /\ scn.phase \in {"editing", "undoing"}
  /\ scn.undos < scn.edits
  /\ Undo
  /\ scn' = [scn EXCEPT !.phase = "undoing", !.undos = scn.undos + 1,
                        !.op = "other", !.ptr0 = pointer]
  /\ UNCHANGED <<probe, budget>>

\* Ctrl+Shift+Z, one of the N redos of the scenario
HRedo ==
  /\ Idle
  /\ scn.phase \in {"undoing", "redoing"}
  /\ scn.undos = scn.edits
  /\ scn.redos < scn.edits
  /\ Redo
  /\ scn' = [scn EXCEPT !.phase = "redoing", !.redos = scn.redos + 1,
                        !.op = "other", !.ptr0 = pointer]
  /\ UNCHANGED <<probe, budget>>

NextHistory == HDown \/ HMove \/ HUp \/ HNudge \/ HUndoFree \/ HUndo \/ HRedo

SpecHistory == Init /\ [][NextHistory]_vars

\* C4: N edits, each a transient update sealed by pushCheckpoint, then N undos
\* bring the rendered project back to the project before the edits, and N redos
\* after that restore the project after the last edit.
C4_UndoRedoRoundTrip ==
  /\ (scn.phase = "undoing" /\ scn.undos = scn.edits) => project = scn.p0
  /\ (scn.phase = "redoing" /\ scn.redos = scn.edits) => project = scn.final

\* C5: pushCheckpoint adds exactly one history entry after the entry the pointer was
\* at, moves the pointer to it, leaves no redo entry behind it, and the entry equals
\* the rendered project, the updates applied with push = false included.
C5_CheckpointSealsProject ==
  scn.op = "checkpoint" =>
    /\ Len(history) = scn.ptr0 + 2
    /\ pointer = scn.ptr0 + 1
    /\ pointer = Len(history) - 1
    /\ history[pointer + 1] = project

-----------------------------------------------------------------------------
(* Specification of the snap engine: snapTime applied to a candidate and a list
   of snap points, then applied again to its own result *)

\* the longest list of snap points
MaxPoints == 3
\* the largest candidate time, in centiseconds
MaxCandidate == 30

\* times of the snap points: closer together than, as far apart as, and farther
\* apart than the threshold
PointTimes == {0, 10, 22, 25}

SnapLists == UNION { [1..k -> {SnapPoint(t, "Grid", "") : t \in PointTimes}] : k \in 0..MaxPoints }

InitSnap ==
  /\ InitProgram
  /\ scn = NoScenario
  /\ budget = 0
  /\ \E candidate \in 0..MaxCandidate, snaps \in SnapLists :
       probe = [NoProbe EXCEPT !.stage = "inputs", !.candidate = candidate, !.snaps = snaps]

\* const { time } = snapTime(candidate, snaps)
SnapOnce ==
  /\ probe.stage = "inputs"
  /\ probe' = [probe EXCEPT !.stage = "once",
                            !.once = snapTime(probe.candidate, probe.snaps).time]
  /\ UNCHANGED <<progVars, scn, budget>>

\* snapTime(time, snaps) on the result of the first call
SnapTwice ==
  /\ probe.stage = "once"
  /\ probe' = [probe EXCEPT !.stage = "twice",
                            !.twice = snapTime(probe.once, probe.snaps).time]
  /\ UNCHANGED <<progVars, scn, budget>>

NextSnap == SnapOnce \/ SnapTwice

SpecSnap == InitSnap /\ [][NextSnap]_vars

\* C8: snapping is a fixed point: snapTime(snapTime(t, pts).time, pts).time equals
\* snapTime(t, pts).time for every candidate t and every list of snap points pts.
C8_SnapFixedPoint ==
  probe.stage = "twice" => probe.twice = probe.once

\* the candidate was pulled to a snap point that has another, different snap point
\* within the threshold, and snapping the result left it where it was
C8_SnappedNearTwoPoints ==
  /\ probe.stage = "twice"
  /\ probe.once # probe.candidate
  /\ \E i \in 1..Len(probe.snaps) :
       /\ probe.snaps[i].time # probe.once
       /\ Abs(probe.snaps[i].time - probe.once) < SNAP_THRESHOLD_SEC
  /\ probe.twice = probe.once

-----------------------------------------------------------------------------
(* Specification of the project file interchange: clip drags and imports of
   saved documents change the project; an export is followed at once by the
   import of the exported document.  The observer scn keeps the project that
   was exported (p0) and the last file operation (op). *)

\* pointer events and file operations explored per run
MaxJsonSteps == 5

JsonDeltas == {-350, 50}
JsonTargets == {"c2", "c4"}

\* saved documents: a full one, and one written without the markers key
JsonDocs ==
  SavedDocs \cup
  { [tracks |-> jsonArray(DEFAULT_TRACKS),
     clips |-> jsonArray(<< Clip("c1", "Intro", "v1", 100, 300) >>)] }

JDown ==
  /\ Idle
  /\ budget < MaxJsonSteps
  /\ \E i \in 1..Len(project.clips), mode \in Modes :
       project.clips[i].id \in JsonTargets /\ StartClipDrag(i, mode, FALSE)
  /\ scn' = [scn EXCEPT !.op = "other"]
  /\ budget' = budget + 1
  /\ UNCHANGED probe

JMove ==
  /\ budget < MaxJsonSteps
  /\ \E d \in JsonDeltas : OnMove(d)
  /\ scn' = [scn EXCEPT !.op = "other"]
  /\ budget' = budget + 1
  /\ UNCHANGED probe

JUp ==
  /\ ~Idle
  /\ budget < MaxJsonSteps
  /\ OnUp
  /\ scn' = [scn EXCEPT !.op = "other"]
  /\ budget' = budget + 1
  /\ UNCHANGED probe

\* the user picks a saved document in the import dialog
JLoad ==
  /\ Idle
  /\ budget < MaxJsonSteps
  /\ \E data \in JsonDocs : ImportJson(data)
  /\ scn' = [scn EXCEPT !.op = "other"]
  /\ budget' = budget + 1
  /\ UNCHANGED probe

JExport ==
  /\ Idle
  /\ budget < MaxJsonSteps
  /\ ExportJson
  /\ scn' = [scn EXCEPT !.op = "exported", !.p0 = project]
  /\ budget' = budget + 1
  /\ UNCHANGED probe

\* the import of the document that was just exported
JImport ==
  /\ scn.op = "exported"
  /\ ImportJson(exportDoc)
  /\ scn' = [scn EXCEPT !.op = "imported"]
  /\ UNCHANGED <<probe, budget>>

NextJson == JDown \/ JMove \/ JUp \/ JLoad \/ JExport \/ JImport

SpecJson == Init /\ [][NextJson]_vars

\* C9: exporting the project and immediately importing the exported document yields
\* a rendered project equal to the exported one: the same tracks, clips and markers
\* in the same order.
C9_ExportImportRoundTrip ==
  scn.op = "imported" => project = scn.p0

\* a round trip of an edited project in which the document left out absent fields
\* of some clips (mediaOffset) that other clips have
C9_RoundTripOfEditedProject ==
  /\ scn.op = "imported"
  /\ project # DefaultProject
  /\ \E i, j \in 1..Len(project.clips) :
       /\ project.clips[i].mediaOffset # Undef
       /\ project.clips[j].mediaOffset = Undef
       /\ "mediaOffset" \in DOMAIN exportDoc.clips[i]
       /\ "mediaOffset" \notin DOMAIN exportDoc.clips[j]
  /\ project = scn.p0

-----------------------------------------------------------------------------
(* Specification of snapped moves: move drags in the default project with the
   edit flags as constructed (all off), with displacements on and off the grid *)

\* pointer events explored per run
MaxGridSteps == 4

\* displacements on the grid, within the threshold of a grid point, just outside
\* it, next to a marker, and onto the start of a sibling
GridDeltas == {38, 50, 55, 61, 63, 195, 650}

GDown ==
  /\ Idle
  /\ budget < MaxGridSteps
  /\ \E i \in 1..Len(project.clips) : StartClipDrag(i, "move", FALSE)
  /\ budget' = budget + 1
  /\ UNCHANGED <<scn, probe>>

GMove ==
  /\ budget < MaxGridSteps
  /\ \E d \in GridDeltas : OnMove(d)
  /\ budget' = budget + 1
  /\ UNCHANGED <<scn, probe>>

GUp ==
  /\ ~Idle
  /\ budget < MaxGridSteps
  /\ OnUp
  /\ budget' = budget + 1
  /\ UNCHANGED <<scn, probe>>

NextGrid == GDown \/ GMove \/ GUp

SpecGrid == Init /\ [][NextGrid]_vars

\* the candidate start of the last move frame, and the other clips of the track
MoveCandidate == clampTime(dragRef.origStart + frame.deltaSec)
MoveSiblings == siblingsOf(project, Dragged.track, dragRef.id)
\* the marker times and sibling edges of the dragged clip's track
OtherSnapTimes ==
  {project.markers[i].time : i \in 1..Len(project.markers)}
    \cup {MoveSiblings[i].start : i \in 1..Len(MoveSiblings)}
    \cup {ClipEnd(MoveSiblings[i]) : i \in 1..Len(MoveSiblings)}
\* g is the grid point the candidate is within the threshold of, no other snap
\* point is as near, and no sibling starts inside [g, g + duration)
SnapsFreelyTo(g) ==
  /\ g % GRID_STEP = 0
  /\ g >= 0 /\ g <= TOTAL_DURATION
  /\ Abs(MoveCandidate - g) < SNAP_THRESHOLD_SEC
  /\ \A t \in OtherSnapTimes : t # g => Abs(MoveCandidate - t) > Abs(MoveCandidate - g)
  /\ \A i \in 1..Len(MoveSiblings) :
       ~(MoveSiblings[i].start >= g /\ MoveSiblings[i].start < g + Dragged.duration)

\* C11: in the default project a move of c1 by +0.5 s leaves c1.start at 0.5, and a
\* move whose candidate start is within the threshold of a grid point, with no
\* nearer snap point and no sibling in the way, leaves the start at that grid point.
C11_MoveSnapsToGrid ==
  (InGesture /\ dragRef.mode = "move" /\ frame.moved /\ ~rippleEdit /\ ~crashed) =>
    /\ (dragStartedState = DefaultProject /\ dragRef.id = "c1" /\ frame.deltaSec = 50)
         => Dragged.start = 50
    /\ \A g \in 0..TOTAL_DURATION : SnapsFreelyTo(g) => Dragged.start = g

\* c1 was dragged by a displacement off the grid and sits on the grid point 0.5
C11_PulledToGrid ==
  /\ InGesture
  /\ dragRef.mode = "move"
  /\ frame.moved
  /\ dragStartedState = DefaultProject
  /\ dragRef.id = "c1"
  /\ frame.deltaSec % GRID_STEP # 0
  /\ SnapsFreelyTo(50)
  /\ Dragged.start = 50

-----------------------------------------------------------------------------
(* Specification of playback start: assets are uploaded and sent to tracks, the
   mute, solo and lock buttons of tracks are pressed and the playhead is moved
   while playback is stopped; then playback is started.  The observer scn keeps
   the last operation (op). *)

\* button presses (flags, skip, play, stop) explored per run
MaxPlaySteps == 3
\* files uploaded per run
MaxAssets == 1
\* clips placed per run
MaxPlaced == 1

\* the files of the upload dialog: an audio file of 3 s and a video file of 5 s
AssetFiles ==
  { [id |-> "kick.wav", type |-> "audio/wav", duration |-> 300],
    [id |-> "take.mp4", type |-> "video/mp4", duration |-> 500] }

\* the tracks assets are sent to
PlaceTracks == {"a1", "a2"}

\* the track buttons pressed
FlagPresses ==
  { [button |-> "mute", track |-> "a1"], [button |-> "mute", track |-> "a2"],
    [button |-> "solo", track |-> "a1"], [button |-> "solo", track |-> "v1"],
    [button |-> "lock", track |-> "a1"] }

\* the skip-to-end button
SeekTargets == {TOTAL_DURATION}

\* files are uploaded and sent to tracks before the first button is pressed
PUpload ==
  /\ budget = 0
  /\ Len(project.clips) = Len(DEFAULT_CLIPS)
  /\ Len(assets) < MaxAssets
  /\ \E f \in AssetFiles :
       /\ \A i \in 1..Len(assets) : assets[i].id # f.id
       /\ UploadAsset(f.id, f.type, f.duration)
  /\ scn' = [scn EXCEPT !.op = "other"]
  /\ UNCHANGED <<probe, budget>>

PPlace ==
  /\ budget = 0
  /\ Len(project.clips) < Len(DEFAULT_CLIPS) + MaxPlaced
  /\ \E a \in 1..Len(assets), trackId \in PlaceTracks : PlaceAssetOnTrack(a, trackId)
  /\ scn' = [scn EXCEPT !.op = "other"]
  /\ UNCHANGED <<probe, budget>>

PToggle ==
  /\ ~playing
  /\ budget < MaxPlaySteps
  /\ \E press \in FlagPresses :
       \/ press.button = "mute" /\ ToggleMute(press.track)
       \/ press.button = "solo" /\ ToggleSolo(press.track)
       \/ press.button = "lock" /\ ToggleLock(press.track)
  /\ scn' = [scn EXCEPT !.op = "other"]
  /\ budget' = budget + 1
  /\ UNCHANGED probe

PSeek ==
  /\ ~playing
  /\ budget < MaxPlaySteps
  /\ \E value \in SeekTargets : Seek(value)
  /\ scn' = [scn EXCEPT !.op = "other"]
  /\ budget' = budget + 1
  /\ UNCHANGED probe

PPlay ==
  /\ budget < MaxPlaySteps
  /\ Play
  /\ scn' = [scn EXCEPT !.op = "play"]
  /\ budget' = budget + 1
  /\ UNCHANGED probe

PStop ==
  /\ budget < MaxPlaySteps
  /\ Stop
  /\ scn' = [scn EXCEPT !.op = "other"]
  /\ budget' = budget + 1
  /\ UNCHANGED probe

NextPlay == PUpload \/ PPlace \/ PToggle \/ PSeek \/ PPlay \/ PStop

SpecPlay == Init /\ [][NextPlay]_vars

\* the track with this id, and the flags read the way the claim words them
TrackById(trackId) == trackOf(project, trackId)[1]
SomeSolo == \E i \in 1..Len(project.tracks) : project.tracks[i].solo = "true"
OnAudibleTrack(c) ==
  /\ TrackById(c.track).locked # "true"
  /\ IF SomeSolo THEN TrackById(c.track).solo = "true" ELSE TrackById(c.track).mute # "true"
\* the audio clips of the project, and the clips of the scheduled sources
AudioClipsOfProject == {c \in Range(project.clips) : c.assetType = "audio/wav"}
ScheduledClips == {sources[i].clip : i \in 1..Len(sources)}
\* the clip still has media to play from the playhead on
MediaLeft(c) ==
  LET offset == Max(0, playhead - c.start + c.mediaOffset)
  IN  offset < c.mediaDuration /\ c.duration > 0

-----------------------------------------------------------------------------
(* Specification of the history store: the lock button pressed until the history
   is as long as wanted, then track-flag commits, drags, nudges, undo and redo *)

\* store operations explored per run, after the history was filled
MaxStoreSteps == 4

\* history lengths at which the exploration starts: the fresh store and the full one
StartLens == {1, limit}

\* the lock button of a1, pressed before anything else
SFill ==
  /\ budget = 0
  /\ Len(history) < limit
  /\ ToggleLock("a1")
  /\ UNCHANGED <<scn, probe, budget>>

\* one explored operation: what the store held before it is kept for the claims
StoreStep(op) ==
  /\ budget < MaxStoreSteps
  /\ budget = 0 => Len(history) \in StartLens
  /\ scn' = [scn EXCEPT !.op = op, !.p0 = project, !.hist0 = history, !.ptr0 = pointer,
                        !.shown0 = rendered]
  /\ budget' = budget + 1
  /\ UNCHANGED probe

SCommit ==
  /\ Idle
  /\ ToggleLock("a1") \/ ToggleMute("a1")
  /\ StoreStep("push")

SDown ==
  /\ Idle
  /\ \E i \in 1..Len(project.clips) :
       project.clips[i].id = "c2" /\ StartClipDrag(i, "move", FALSE)
  /\ StoreStep("down")

SMove ==
  /\ \E d \in {0, 50} : OnMove(d)
  /\ StoreStep("nopush")

SUp ==
  /\ ~Idle
  /\ OnUp
  /\ StoreStep("checkpoint")

SNudge ==
  /\ Idle
  /\ KeyArrow("ArrowRight", FALSE)
  /\ StoreStep("nudge")

SUndo ==
  /\ Idle
  /\ Undo
  /\ StoreStep("undo")

SRedo ==
  /\ Idle
  /\ Redo
  /\ StoreStep("redo")

NextStore == SFill \/ SCommit \/ SDown \/ SMove \/ SUp \/ SNudge \/ SUndo \/ SRedo

SpecStore == Init /\ [][NextStore]_vars

\* a1 after its lock or its mute button was pressed on project p
FlagPressed(p) == {MapTrack(p, "a1", "lock"), MapTrack(p, "a1", "mute")}

\* C13: after a commit with push the history is the former entries up to and
\* including the former pointer, minus the oldest one when that makes more than
\* `limit` entries, followed by the new project value; the pointer is at the last
\* entry and redo is not possible.
C13_PushAppendsAfterPointer ==
  scn.op = "push" =>
    LET kept == SubSeq(scn.hist0, 1, scn.ptr0 + 1)
        full == Append(kept, project)
    IN  /\ project \in FlagPressed(scn.p0)
        /\ history = IF Len(full) > limit THEN Tail(full) ELSE full
        /\ pointer = Len(history) - 1
        /\ ~canRedo
        /\ ~rendered.canRedo

\* a commit made with the history full and the pointer at its end: the oldest entry went
C13_PushedWhenFull ==
  /\ scn.op = "push"
  /\ Len(scn.hist0) = limit
  /\ scn.ptr0 = limit - 1
  /\ history[1] = scn.hist0[2]

\* C14: in every reachable state of the history store the history has at least 1 and
\* at most `limit` entries and the pointer is an index into it (0 .. length - 1).
C14_HistoryBounded ==
  /\ 1 <= Len(history)
  /\ Len(history) <= limit
  /\ 0 <= pointer
  /\ pointer <= Len(history) - 1

\* a drag was sealed by pushCheckpoint while the history was full
C14_CheckpointWhenFull ==
  /\ scn.op = "checkpoint"
  /\ Len(scn.hist0) = limit
  /\ scn.ptr0 = limit - 1
  /\ Len(history) = limit

\* the project a pointer-move frame with displacement d computes from project p
FrameResult(p, drag, d) ==
  LET trackId == FindClip(p.clips, drag.id)[1].track
  IN  onMoveUpdater(p, drag, d, siblingsOf(p, trackId, drag.id),
                    collectSnapPoints(p, trackId, drag.id), trackId,
                    [allowOverlap |-> allowOverlap, rollEdit |-> rollEdit,
                     rippleEdit |-> rippleEdit]).project

\* C15: a commit with push = false (a pointer-move frame of a drag) replaces the
\* rendered project with the new value and leaves the history and the pointer as
\* they were; canUndo and canRedo do not change.
C15_NoPushLeavesHistory ==
  scn.op = "nopush" =>
    /\ project = FrameResult(scn.p0, dragRef, frame.deltaSec)
    /\ history = scn.hist0
    /\ pointer = scn.ptr0
    /\ rendered = scn.shown0
    /\ canUndo = (scn.ptr0 > 0)
    /\ canRedo = (scn.ptr0 < Len(scn.hist0) - 1)

\* a frame that moved c2 while undo and redo were both possible
C15_FrameBetweenEntries ==
  /\ scn.op = "nopush"
  /\ project # scn.p0
  /\ scn.shown0 = [canUndo |-> TRUE, canRedo |-> TRUE]
  /\ history[pointer + 1] # project

\* what undo / redo did to the store, given what it held before
UndoneFrom(ptr0) ==
  IF ptr0 = 0
  THEN project = scn.p0 /\ history = scn.hist0 /\ pointer = ptr0
  ELSE pointer = ptr0 - 1 /\ history = scn.hist0 /\ project = history[pointer + 1]
RedoneFrom(ptr0) ==
  IF ptr0 = Len(scn.hist0) - 1
  THEN project = scn.p0 /\ history = scn.hist0 /\ pointer = ptr0
  ELSE pointer = ptr0 + 1 /\ history = scn.hist0 /\ project = history[pointer + 1]

\* C16: undo at the first entry and redo at the last entry change neither the
\* rendered project, the history nor the pointer; otherwise they move the pointer by
\* one and the rendered project becomes the entry at the new pointer; the canUndo the
\* store reports holds exactly when pointer > 0 and canRedo exactly when the pointer
\* is before the last index.
C16_UndoRedoAndFlags ==
  /\ scn.op = "undo" => UndoneFrom(scn.ptr0)
  /\ scn.op = "redo" => RedoneFrom(scn.ptr0)
  /\ rendered.canUndo = (pointer > 0)
  /\ rendered.canRedo = (pointer < Len(history) - 1)

-----------------------------------------------------------------------------
(* Specification of the snap selection: snapTime applied once to a candidate and a
   list of snap points that are told apart by their labels *)

\* labels of the points, by position in the list
PointNames == <<"first", "second", "third", "fourth", "fifth">>

LabelledLists ==
  UNION { { [i \in 1..k |-> SnapPoint(f[i], "Marker", PointNames[i])] : f \in [1..k -> PointTimes] }
          : k \in 0..MaxPoints }

InitPick ==
  /\ InitProgram
  /\ scn = NoScenario
  /\ budget = 0
  /\ \E candidate \in 0..MaxCandidate, snaps \in LabelledLists :
       probe = [NoProbe EXCEPT !.stage = "inputs", !.candidate = candidate, !.snaps = snaps]

\* snapTime(candidate, snaps)
SnapPick ==
  /\ probe.stage = "inputs"
  /\ probe' = [probe EXCEPT !.stage = "picked",
                            !.picked = snapTime(probe.candidate, probe.snaps)]
  /\ UNCHANGED <<progVars, scn, budget>>

NextPick == SnapPick

SpecPick == InitPick /\ [][NextPick]_vars

\* distance of the candidate to point i, and the points within the threshold
PointDist(i) == Abs(probe.candidate - probe.snaps[i].time)
WithinThreshold == {i \in 1..Len(probe.snaps) : PointDist(i) < SNAP_THRESHOLD_SEC}
\* the first point, in list order, that no point is closer than
FirstClosest ==
  CHOOSE i \in WithinThreshold :
    /\ \A j \in 1..Len(probe.snaps) : PointDist(i) <= PointDist(j)
    /\ \A j \in 1..(i - 1) : PointDist(j) > PointDist(i)

\* C17: snapTime returns the time and the label of a point at minimal distance to
\* the candidate, the first such point of the list, when that distance is below the
\* threshold; when no point is within the threshold it returns the candidate itself
\* with a null label.
C17_ClosestPointFirstOnTies ==
  probe.stage = "picked" =>
    IF WithinThreshold = {}
    THEN probe.picked = [time |-> probe.candidate, label |-> NullLabel]
    ELSE probe.picked = [time |-> probe.snaps[FirstClosest].time,
                         label |-> probe.snaps[FirstClosest].label]

\* two points at different times are equally close to the candidate, nothing is
\* closer, and the earlier one in the list was returned
C17_TieTakesFirst ==
  /\ probe.stage = "picked"
  /\ \E i, j \in WithinThreshold :
       /\ i < j
       /\ PointDist(i) = PointDist(j)
       /\ probe.snaps[i].time # probe.snaps[j].time
       /\ \A k \in 1..Len(probe.snaps) : PointDist(i) <= PointDist(k)
       /\ \A k \in 1..(i - 1) : PointDist(k) > PointDist(i)
       /\ probe.picked = [time |-> probe.snaps[i].time, label |-> probe.snaps[i].label]

-----------------------------------------------------------------------------
(* Specification of media-backed clips: assets are uploaded and sent to v1, then
   clips are slipped and trimmed, with ripple on or off *)

\* placements and pointer events explored per run
MaxMediaSteps == 6

\* the files uploaded, in this order: a long video and a short sound
MediaFiles ==
  << [id |-> "long.mp4", type |-> "video/mp4", duration |-> 2000],
     [id |-> "kick.wav", type |-> "audio/wav", duration |-> 300] >>

MediaTargets == {"c1", "kick.wav-clip"}
MediaModes == {"slip", "trim-end"}
MediaDeltas == {-100, 50}

MUpload ==
  /\ budget = 0
  /\ Len(assets) < Len(MediaFiles)
  /\ LET f == MediaFiles[Len(assets) + 1]
     IN  UploadAsset(f.id, f.type, f.duration)
  /\ UNCHANGED <<scn, probe, budget>>

MRipple ==
  /\ budget = 0
  /\ ~rippleEdit
  /\ SetRippleEdit(TRUE)
  /\ UNCHANGED <<scn, probe, budget>>

\* Send to track, once per asset
MPlace ==
  /\ Idle
  /\ budget < MaxMediaSteps
  /\ \E a \in 1..Len(assets) :
       /\ FindClip(project.clips, assets[a].id \o "-clip") = <<>>
       /\ PlaceAssetOnTrack(a, "v1")
  /\ budget' = budget + 1
  /\ UNCHANGED <<scn, probe>>

MDown ==
  /\ Idle
  /\ budget < MaxMediaSteps
  /\ \E i \in 1..Len(project.clips), mode \in MediaModes :
       project.clips[i].id \in MediaTargets /\ StartClipDrag(i, mode, FALSE)
  /\ budget' = budget + 1
  /\ UNCHANGED <<scn, probe>>

MMove ==
  /\ budget < MaxMediaSteps
  /\ \E d \in MediaDeltas : OnMove(d)
  /\ budget' = budget + 1
  /\ UNCHANGED <<scn, probe>>

MUp ==
  /\ ~Idle
  /\ budget < MaxMediaSteps
  /\ OnUp
  /\ budget' = budget + 1
  /\ UNCHANGED <<scn, probe>>

NextMedia == MUpload \/ MRipple \/ MPlace \/ MDown \/ MMove \/ MUp

SpecMedia == Init /\ [][NextMedia]_vars

\* C18: during and after a slip drag the dragged clip's start and duration are those
\* at pointer-down, its mediaOffset lies in [0, max(0, mediaDuration - duration)]
\* (mediaDuration read as the duration when the clip has none), and no other clip,
\* track or marker changes.
C18_SlipChangesOffsetOnly ==
  (InGesture /\ dragRef.mode = "slip" /\ frame.moved /\ ~crashed) =>
    /\ Dragged.start = dragRef.origStart
    /\ Dragged.duration = dragRef.origDuration
    /\ 0 <= Dragged.mediaOffset
    /\ Dragged.mediaOffset <= Max(0, OrElse(Dragged.mediaDuration, Dragged.duration) - Dragged.duration)
    /\ \A i \in 1..Len(AtDown) :
         IF AtDown[i].id = dragRef.id
         THEN [project.clips[i] EXCEPT !.mediaOffset = AtDown[i].mediaOffset] = AtDown[i]
         ELSE project.clips[i] = AtDown[i]
    /\ project.tracks = dragStartedState.tracks
    /\ project.markers = dragStartedState.markers

\* the clip was made from an asset
MediaBacked(c) == c.url # "undefined"

\* C19: in every reachable state every media-backed clip satisfies
\* mediaOffset + duration <= mediaDuration.
C19_MediaWindowInsideMedia ==
  \A i \in 1..Len(project.clips) :
    MediaBacked(project.clips[i]) =>
      project.clips[i].mediaOffset + project.clips[i].duration <= project.clips[i].mediaDuration

-----------------------------------------------------------------------------
(* Slide drags, checked under Spec *)

\* the siblings of the dragged clip at pointer-down, in start order
SiblingsAtDown == siblingsOf(dragStartedState, Dragged.track, dragRef.id)
\* the sibling that precedes and the sibling that follows the sliding clip
PrecedingSibling == prevSiblingAt(SiblingsAtDown, dragRef.origStart)
FollowingSibling == nextSiblingAt(SiblingsAtDown, dragRef.origStart)

\* C20: a pointer-move frame of a slide drag is applied, and when the sliding
\* clip's start has changed by d since pointer-down its duration is unchanged, the
\* preceding sibling keeps its start and has its duration changed by d, the
\* following sibling keeps its end and has its start changed by d, and every other
\* clip is unchanged.
C20_SlideMovesNeighbourEdges ==
  (InGesture /\ dragRef.mode = "slide" /\ frame.moved) =>
    /\ ~crashed
    /\ LET d == Dragged.start - dragRef.origStart
       IN  \A i \in 1..Len(AtDown) :
             IF AtDown[i].id = dragRef.id
             THEN project.clips[i] = [AtDown[i] EXCEPT !.start = AtDown[i].start + d]
             ELSE IF PrecedingSibling # <<>> /\ AtDown[i].id = PrecedingSibling[1].id
             THEN project.clips[i] = [AtDown[i] EXCEPT !.duration = AtDown[i].duration + d]
             ELSE IF FollowingSibling # <<>> /\ AtDown[i].id = FollowingSibling[1].id
             THEN project.clips[i] = [AtDown[i] EXCEPT !.start = AtDown[i].start + d,
                                                       !.duration = AtDown[i].duration - d]
             ELSE project.clips[i] = AtDown[i]

-----------------------------------------------------------------------------
(* Roll rejection at trim-start, checked under Spec *)

\* the snap points and the boundary shift of a trim-start frame, from pointer-down
SnapsAtDown == collectSnapPoints(dragStartedState, Dragged.track, dragRef.id)
BoundaryShift ==
  snapTime(clampTime(dragRef.origStart + frame.deltaSec), SnapsAtDown).time - dragRef.origStart
\* the clip the plain trim-start rule makes of the clip as it was at pointer-down
PlainTrimStart ==
  trimStartClip(FindClip(AtDown, dragRef.id)[1], dragRef, frame.deltaSec, SiblingsAtDown,
                SnapsAtDown,
                [allowOverlap |-> allowOverlap, rollEdit |-> FALSE, rippleEdit |-> rippleEdit]).clip

\* C21: in a trim-start drag with roll on and a preceding sibling, a frame whose
\* boundary shift would take the preceding sibling's duration or the dragged clip's
\* duration below MIN_CLIP is applied as a plain trim-start: the preceding sibling is
\* as it was at pointer-down and the dragged clip is the result of the plain rule.
C21_RollRejectedBelowMinClip ==
  ( /\ InGesture /\ dragRef.mode = "trim-start" /\ rollEdit /\ frame.moved
    /\ PrecedingSibling # <<>>
    /\ \/ PrecedingSibling[1].duration + BoundaryShift < MIN_CLIP
       \/ dragRef.origDuration - BoundaryShift < MIN_CLIP ) =>
    /\ ~crashed
    /\ FindClip(project.clips, PrecedingSibling[1].id)[1] = PrecedingSibling[1]
    /\ Dragged = PlainTrimStart

-----------------------------------------------------------------------------
(* Specification of the track header buttons: M, S and lock pressed on a1 and a2.
   The observer scn keeps the button (op) and the project before the press (p0). *)

\* buttons pressed per run
MaxFlagSteps == 4

FlagTracks == {"a1", "a2"}

FlagStep(op) ==
  /\ budget < MaxFlagSteps
  /\ scn' = [scn EXCEPT !.op = op, !.p0 = project, !.hist0 = history, !.ptr0 = pointer,
                        !.shown0 = rendered]
  /\ budget' = budget + 1
  /\ UNCHANGED probe

FMute == (\E t \in FlagTracks : ToggleMute(t)) /\ FlagStep("mute")
FSolo == (\E t \in FlagTracks : ToggleSolo(t)) /\ FlagStep("solo")
FLock == (\E t \in FlagTracks : ToggleLock(t)) /\ FlagStep("lock")

NextFlags == FMute \/ FSolo \/ FLock

SpecFlags == Init /\ [][NextFlags]_vars

\* track i before and after the last press
TrackBefore(i) == scn.p0.tracks[i]
TrackAfter(i) == project.tracks[i]
TrackIndices == 1..Len(project.tracks)
\* the S button was pressed on track i / the M button was pressed on track i: the
\* button always flips its own flag
SoloPressedOn(i) == scn.op = "solo" /\ Truthy(TrackBefore(i).solo) # Truthy(TrackAfter(i).solo)
MutePressedOn(i) == scn.op = "mute" /\ Truthy(TrackBefore(i).mute) # Truthy(TrackAfter(i).mute)

\* C22: turning solo on for a track that is muted leaves that track's mute flag
\* set: only the solo flag of the track changes.
C22_SoloOnKeepsMute ==
  \A i \in TrackIndices :
    (SoloPressedOn(i) /\ ~Truthy(TrackBefore(i).solo) /\ Truthy(TrackBefore(i).mute)) =>
      TrackAfter(i) = [TrackBefore(i) EXCEPT !.solo = "true"]

\* C23: toggling mute on a track whose solo flag is set clears that track's solo
\* flag, whether mute is turned on or off; no other track's flags change.
C23_MuteClearsSolo ==
  \A i \in TrackIndices :
    (MutePressedOn(i) /\ Truthy(TrackBefore(i).solo)) =>
      /\ ~Truthy(TrackAfter(i).solo)
      /\ \A j \in TrackIndices \ {i} : TrackAfter(j) = TrackBefore(j)

-----------------------------------------------------------------------------
(* Specification of the keyboard edits: clips are clicked (with or without the
   modifier key) to select them, nudged, deleted and duplicated, and an undo is
   pressed right after a delete or a duplicate.  The observer scn keeps the last
   key (op), the project (p0) and the selection (sel0) before it. *)

\* pointer and key events explored per run
MaxKeySteps == 5

KeyTargets == {"c1", "c2"}

\* readings of Date.now() at the event: the clock never goes back, and it can stand
\* still between two events that are handled within the same millisecond
Clock == {budget, budget + 1}

KeyStep(op) ==
  /\ budget < MaxKeySteps
  /\ scn' = [scn EXCEPT !.op = op, !.p0 = project, !.sel0 = selection.clipIds,
                        !.hist0 = history, !.ptr0 = pointer, !.shown0 = rendered]
  /\ budget' = budget + 1
  /\ UNCHANGED probe

KDown ==
  /\ Idle
  /\ \E i \in 1..Len(project.clips), modifier \in BOOLEAN :
       project.clips[i].id \in KeyTargets /\ StartClipDrag(i, "move", modifier)
  /\ KeyStep("down")

KUp == ~Idle /\ OnUp /\ KeyStep("up")

KNudge == Idle /\ KeyArrow("ArrowRight", FALSE) /\ KeyStep("nudge")

KDelete == Idle /\ KeyDelete /\ KeyStep("delete")

KDuplicate == Idle /\ (\E now \in Clock : KeyDuplicate(now)) /\ KeyStep("duplicate")

\* ctrl/cmd + Z right after a delete or a duplicate
KUndo ==
  /\ Idle
  /\ scn.op \in {"delete", "duplicate"}
  /\ budget < MaxKeySteps
  /\ Undo
  /\ scn' = [scn EXCEPT !.op = scn.op \o "-undone"]
  /\ budget' = budget + 1
  /\ UNCHANGED probe

NextKeys == KDown \/ KUp \/ KNudge \/ KDelete \/ KDuplicate \/ KUndo

SpecKeys == Init /\ [][NextKeys]_vars

\* C24: Delete / Backspace with a non-empty selection removes exactly the selected
\* clips (other clips, tracks and markers unchanged) and empties the selection, and
\* a single undo right after it restores the rendered project as it was before.
C24_DeleteIsOneUndoStep ==
  /\ scn.op = "delete" =>
       /\ project = [scn.p0 EXCEPT !.clips =
                       Filter(scn.p0.clips,
                              {c \in Range(scn.p0.clips) : c.id \notin Range(scn.sel0)})]
       /\ selection.clipIds = <<>>
  /\ scn.op = "delete-undone" => project = scn.p0

\* the selection indices (from 1) whose clip exists, and where the clone of index i is
Cloned == {i \in 1..Len(scn.sel0) : FindClip(scn.p0.clips, scn.sel0[i]) # <<>>}
ClonePos(i) == Len(scn.p0.clips) + Cardinality({j \in Cloned : j <= i})

\* C25: duplicate with a non-empty selection appends, after the existing clips, one
\* clone per selected clip that exists; the clone of selection index idx has start =
\* clamp(source.start + 0.5 + 0.1 * idx), an id different from every other clip id,
\* and its other fields equal to its source; the existing clips are unchanged, and a
\* single undo right after it restores the project as it was before.
C25_DuplicateAppendsClones ==
  /\ scn.op = "duplicate" =>
       /\ Len(project.clips) = Len(scn.p0.clips) + Cardinality(Cloned)
       /\ SubSeq(project.clips, 1, Len(scn.p0.clips)) = scn.p0.clips
       /\ project.tracks = scn.p0.tracks
       /\ project.markers = scn.p0.markers
       /\ \A i \in Cloned :
            LET source == FindClip(scn.p0.clips, scn.sel0[i])[1]
                clone == project.clips[ClonePos(i)]
            IN  /\ clone.start = clamp(source.start + 50 + 10 * (i - 1), 0, TOTAL_DURATION)
                /\ [clone EXCEPT !.id = source.id, !.start = source.start] = source
                /\ \A j \in 1..Len(project.clips) :
                     j # ClonePos(i) => project.clips[j].id # clone.id
  /\ scn.op = "duplicate-undone" => project = scn.p0

-----------------------------------------------------------------------------
(* Specification of the marquee: the height buttons of tracks are pressed, then
   marquee gestures are made on the tracks container of the default project.  The
   observer scn keeps the last operation (op), the project, history and pointer
   at pointer-down (p0, hist0, ptr0) and the selection before pointer-up (sel0). *)

\* pointer events and button presses explored per run
MaxMarqueeSteps == 4

\* the tracks whose height button is pressed, and how often per run
HeightTracks == {"v1"}
MaxHeightPresses == 2

\* the pointer positions in the tracks container, in pixels
MarqueeXs == {0, 700, 1300}
MarqueeYs == {0, 60, 73, 150, 230}

\* the row of a track as line 1129 sizes it (trackHeightScale 1): 70 px, compact
\* 48 px; rows follow each other at the distance the marquee branch assumes
\* between normal rows (LaneStride - LaneHeight)
CompactHeight == 48
rowHeight(t) == IF t.height = "compact" THEN CompactHeight ELSE LaneHeight

RECURSIVE rowTop(_, _)
rowTop(tracks, i) ==
  IF i <= 1 THEN 0
  ELSE rowTop(tracks, i - 1) + rowHeight(tracks[i - 1]) + (LaneStride - LaneHeight)

\* the clip's pixel interval and the row of its track meet the rectangle
MeetsRectangle(p, c, box) ==
  LET i == findIndex(p.tracks, c.track) + 1
  IN  /\ i >= 1
      /\ (c.start + c.duration) * pxPerSec >= box.x1 * 100
      /\ c.start * pxPerSec <= box.x2 * 100
      /\ rowTop(p.tracks, i) + rowHeight(p.tracks[i]) >= box.y1
      /\ rowTop(p.tracks, i) <= box.y2

\* a clip of an unlocked track is under the pointer: its own handler takes the
\* pointer-down and stops it
OverClip(p, x, y) ==
  \E c \in Range(p.clips) :
     /\ MeetsRectangle(p, c, [x1 |-> x, x2 |-> x, y1 |-> y, y2 |-> y])
     /\ ~Truthy(trackOf(p, c.track)[1].locked)

MarqueeStep(op) ==
  /\ budget < MaxMarqueeSteps
  /\ scn' = [scn EXCEPT !.op = op,
                        !.p0 = IF op = "marquee-down" THEN project ELSE scn.p0,
                        !.hist0 = IF op = "marquee-down" THEN history ELSE scn.hist0,
                        !.ptr0 = IF op = "marquee-down" THEN pointer ELSE scn.ptr0,
                        !.sel0 = IF op = "marquee-up" THEN selection.clipIds ELSE scn.sel0]
  /\ budget' = budget + 1
  /\ UNCHANGED probe

QHeight ==
  /\ selection.marquee = NoMarquee
  /\ scn.op = "none"
  /\ pointer < MaxHeightPresses
  /\ \E trackId \in HeightTracks : ToggleHeight(trackId)
  /\ UNCHANGED <<scn, probe, budget>>

QDown ==
  /\ selection.marquee = NoMarquee
  /\ \E x \in MarqueeXs, y \in MarqueeYs :
       /\ ~OverClip(project, x, y)
       /\ startMarquee(x, y)
  /\ MarqueeStep("marquee-down")

QMove ==
  /\ \E x \in MarqueeXs, y \in MarqueeYs : OnMoveMarquee(x, y)
  /\ MarqueeStep("marquee-move")

QUp ==
  /\ selection.marquee # NoMarquee
  /\ OnUp
  /\ MarqueeStep("marquee-up")

NextMarquee == QHeight \/ QDown \/ QMove \/ QUp

SpecMarquee == Init /\ [][NextMarquee]_vars

\* C26: a marquee gesture empties the selection at pointer-down, after each
\* pointer-move makes the selection exactly the set of clips whose pixel interval
\* and track lane meet the rectangle, and at pointer-up clears the rectangle and
\* keeps that selection; the project and the history are unchanged throughout.
C26_MarqueeSelectsClipsUnderRectangle ==
  /\ scn.op = "marquee-down" => selection.clipIds = <<>>
  /\ scn.op = "marquee-move" =>
       Range(selection.clipIds) =
         {c.id : c \in {k \in Range(project.clips) :
                          MeetsRectangle(project, k, ordered(selection.marquee))}}
  /\ scn.op = "marquee-up" =>
       /\ selection.marquee = NoMarquee
       /\ selection.clipIds = scn.sel0
  /\ scn.op \in {"marquee-down", "marquee-move", "marquee-up"} =>
       /\ project = scn.p0
       /\ history = scn.hist0
       /\ pointer = scn.ptr0

-----------------------------------------------------------------------------
(* Specification of the pointer gestures: pointer-downs on clips, on the empty
   track area and on the loop handles of the minimap, pointer-moves and
   pointer-ups, in the default project.  No handler looks at the button of the
   event or at a gesture already under way, so a pointer-down is explored in every
   state: a second button pressed while the first is held, or a pointer-down
   after a pointer-up the window never saw (a context menu took it).  The
   observer scn keeps the last operation (op). *)

\* pointer events explored per run
MaxPointerSteps == 4

\* the clips pressed and the part of the clip box pressed
PointerClips == {1, 3}
PointerModes == {"move", "trim-end"}
\* the displacements of a clip drag
PointerDeltas == {-30, 50}
\* the corners of a marquee rectangle, in pixels
PointerCorners == {[x |-> 700, y |-> 60], [x |-> 1300, y |-> 230]}
\* the handles pressed and the times the pointer is moved to over the minimap
LoopHandles == {"loop-start", "loop-end"}
LoopTimes == {400}

PointerStep(op) ==
  /\ budget < MaxPointerSteps
  /\ scn' = [scn EXCEPT !.op = op]
  /\ budget' = budget + 1
  /\ UNCHANGED probe

WClip ==
  /\ \E i \in PointerClips, mode \in PointerModes : StartClipDrag(i, mode, FALSE)
  /\ PointerStep("down")

WMarquee ==
  /\ \E at \in PointerCorners :
       /\ ~OverClip(project, at.x, at.y)
       /\ startMarquee(at.x, at.y)
  /\ PointerStep("down")

WLoop ==
  /\ \E handle \in LoopHandles : startLoopHandle(handle)
  /\ PointerStep("down")

WMove ==
  /\ \/ \E d \in PointerDeltas : OnMove(d)
     \/ \E at \in PointerCorners : OnMoveMarquee(at.x, at.y)
     \/ \E time \in LoopTimes : OnMoveLoop(time)
  /\ PointerStep("move")

WUp == OnUp /\ PointerStep("up")

NextPointer == WClip \/ WMarquee \/ WLoop \/ WMove \/ WUp

SpecPointer == Init /\ [][NextPointer]_vars

\* the gestures under way
ActiveGestures ==
  {g \in {"drag", "marquee", "loop"} :
     \/ g = "drag" /\ dragRef # NoDrag
     \/ g = "marquee" /\ selection.marquee # NoMarquee
     \/ g = "loop" /\ loopHandleRef # "null"}

\* C27: in every reachable state at most one pointer gesture is active (a clip
\* drag, a marquee rectangle and a loop-handle drag are never active together),
\* and every pointer-up returns the controller to idle: no drag info, no marquee,
\* no loop handle.
C27_OneGestureAtATime ==
  /\ Cardinality(ActiveGestures) <= 1
  /\ scn.op = "up" => ActiveGestures = {}

\* C28: the snap indicator has a non-null position from pointer-down on a clip
\* through every pointer-move frame of that drag, and it is null after pointer-up;
\* whenever no clip drag is in progress the snap indicator is null.
C28_SnapIndicatorFollowsDrag ==
  /\ dragRef # NoDrag => snap.position # Undef
  /\ dragRef = NoDrag => snap = NoSnap
  /\ scn.op = "up" => snap = NoSnap

\* a pointer-move frame of a clip drag has set the indicator
C28_IndicatorAfterFrame ==
  /\ scn.op = "move"
  /\ dragRef # NoDrag
  /\ frame.moved
  /\ snap.position # Undef

-----------------------------------------------------------------------------
(* Specification of playback start and stop: an audio file is uploaded and sent
   to a1, then playback is started and stopped while the startPlayback calls
   resume from their awaits in any order and the requested frames run.  The
   observer scn keeps the last operation (op). *)

\* button presses, resumptions and frames explored per run
MaxAsyncSteps == 7

\* the file uploaded: 3 s of audio
AsyncFile == [id |-> "kick.wav", type |-> "audio/wav", duration |-> 300]
\* the time between two readings of the audio clock
FrameTimes == {100, 1400}

AsyncStep(op) ==
  /\ budget < MaxAsyncSteps
  /\ scn' = [scn EXCEPT !.op = op]
  /\ budget' = budget + 1
  /\ UNCHANGED probe

AUpload ==
  /\ budget = 0
  /\ assets = <<>>
  /\ UploadAsset(AsyncFile.id, AsyncFile.type, AsyncFile.duration)
  /\ UNCHANGED <<scn, probe, budget>>

APlace ==
  /\ budget = 0
  /\ Len(project.clips) = Len(DEFAULT_CLIPS)
  /\ \E a \in 1..Len(assets) : PlaceAssetOnTrack(a, "a1")
  /\ UNCHANGED <<scn, probe, budget>>

\* with a clip whose buffer has to be fetched, startPlayback does wait
AStart ==
  /\ Len(project.clips) > Len(DEFAULT_CLIPS)
  /\ StartPlayback
  /\ AsyncStep("start")

AStop == Stop /\ AsyncStep("stop")

AContext == (\E c \in 1..calls : AfterContext(c)) /\ AsyncStep("context")

ABuffers == (\E c \in 1..calls : AfterBuffers(c)) /\ AsyncStep("buffers")

ATick == (\E c \in 1..calls, dt \in FrameTimes : Tick(c, dt)) /\ AsyncStep("tick")

NextAsync == AUpload \/ APlace \/ AStart \/ AStop \/ AContext \/ ABuffers \/ ATick

SpecAsync == Init /\ [][NextAsync]_vars

\* C29: once playback is stopped (playing false, stopPlayback run), whatever the
\* order in which a start still waiting for its audio context or its buffers
\* resumes, no audio source of an earlier start remains unstopped and no playback
\* tick is pending or gets scheduled until playback is started again.
C29_StopSilencesEverything ==
  ~playing => (live = {} /\ ticks = {})

-----------------------------------------------------------------------------
(* Specification of looped playback: the loop is switched on, its start is set
   and the playhead is moved while playback is stopped; then playback is started,
   its startPlayback calls resume and the requested frames run.  The observer scn
   keeps the last operation (op: "looped" for a tick that found the playhead at
   or past the loop end, "advanced" for a tick that moved the playhead on) and the
   reading of the audio clock at the last looped tick (loopedAt). *)

\* resumptions and frames explored per run
MaxLoopSteps == 8

\* the loop starts entered and the positions the playhead is moved to
LoopStarts == {200}
LoopSeeks == {0, 200}
\* the time between two readings of the audio clock
LoopFrameTimes == {100, 400}

LEnable ==
  /\ ~playing
  /\ ~loopEnabled
  /\ SetLoopEnabled(TRUE)
  /\ UNCHANGED <<scn, probe, budget>>

LRange ==
  /\ ~playing
  /\ loopRange.start = 0
  /\ \E start \in LoopStarts : SetLoopRange([loopRange EXCEPT !.start = clampTime(start)])
  /\ UNCHANGED <<scn, probe, budget>>

LSeek ==
  /\ ~playing
  /\ playhead = 450
  /\ \E value \in LoopSeeks : Seek(value)
  /\ UNCHANGED <<scn, probe, budget>>

LoopStep(op) ==
  /\ budget < MaxLoopSteps
  /\ scn' = [scn EXCEPT !.op = op]
  /\ budget' = budget + 1
  /\ UNCHANGED probe

LStart == loopEnabled /\ StartPlayback /\ LoopStep("start")

LContext == (\E c \in 1..calls : AfterContext(c)) /\ LoopStep("context")

LBuffers == (\E c \in 1..calls : AfterBuffers(c)) /\ LoopStep("buffers")

\* a tick that looped is the one that made a startPlayback call
LTick ==
  /\ budget < MaxLoopSteps
  /\ \E c \in 1..calls, dt \in LoopFrameTimes : Tick(c, dt)
  /\ scn' = [scn EXCEPT !.op = IF calls' > calls THEN "looped" ELSE "advanced",
                        !.loopedAt = IF calls' > calls THEN currentTime' ELSE scn.loopedAt]
  /\ budget' = budget + 1
  /\ UNCHANGED probe

NextLoop == LEnable \/ LRange \/ LSeek \/ LStart \/ LContext \/ LBuffers \/ LTick

SpecLoop == Init /\ [][NextLoop]_vars

\* C30: with looping enabled, a tick that finds the playhead at or past the loop
\* end sets the playhead to the loop start, and the ticks after it advance the
\* playhead from the loop start (the playback anchor is the loop start), whatever
\* position playback was started from.
C30_LoopRestartsFromLoopStart ==
  /\ scn.op = "looped" =>
       /\ playhead = loopRange.start
       /\ anchor = [pos |-> loopRange.start, time |-> currentTime]
  /\ (scn.op = "advanced" /\ scn.loopedAt # Undef) =>
       playhead = clampTime(loopRange.start + (currentTime - scn.loopedAt))

-----------------------------------------------------------------------------
(* Specification of playback to the end of the timeline: with looping off the
   playhead is moved, playback is started once, and then nothing but the
   resumptions of startPlayback and the requested frames happens.  A call that
   waits does resume and a requested frame does run (weak fairness), and every
   frame finds the audio clock advanced. *)

\* the positions the playhead is moved to before playback is started
EndSeeks == {0, 200, 900, 1300, 1700, TOTAL_DURATION}
\* the time between two readings of the audio clock
EndFrameTimes == {100, 250, 700}

ESeek ==
  /\ calls = 0
  /\ playhead = 450
  /\ \E value \in EndSeeks : Seek(value)
  /\ scn' = [scn EXCEPT !.op = "seek"]
  /\ UNCHANGED <<probe, budget>>

EStart ==
  /\ calls = 0
  /\ StartPlayback
  /\ scn' = [scn EXCEPT !.op = "start"]
  /\ UNCHANGED <<probe, budget>>

EContext ==
  /\ \E c \in 1..calls : AfterContext(c)
  /\ scn' = [scn EXCEPT !.op = "context"]
  /\ UNCHANGED <<probe, budget>>

EBuffers ==
  /\ \E c \in 1..calls : AfterBuffers(c)
  /\ scn' = [scn EXCEPT !.op = "buffers"]
  /\ UNCHANGED <<probe, budget>>

ETick ==
  /\ \E c \in 1..calls, dt \in EndFrameTimes : Tick(c, dt)
  /\ scn' = [scn EXCEPT !.op = "tick"]
  /\ UNCHANGED <<probe, budget>>

NextEnd == ESeek \/ EStart \/ EContext \/ EBuffers \/ ETick

SpecEnd ==
  /\ Init
  /\ [][NextEnd]_vars
  /\ WF_vars(EContext)
  /\ WF_vars(EBuffers)
  /\ WF_vars(ETick)

\* playback is over: the playhead is at the end of the timeline, playing is false,
\* no frame is requested and no startPlayback call is waiting to request one
PlaybackOver ==
  /\ playhead = TOTAL_DURATION
  /\ ~playing
  /\ ticks = {}
  /\ starts = {}

-----------------------------------------------------------------------------
(* Specification of the metadata of uploads: files are uploaded, their assets are
   sent to tracks, and the metadata of each file arrives at any moment, before or
   after the placements.  The observer scn keeps the last operation (op). *)

\* uploads, placements and arrivals explored per run
MaxProbeSteps == 5

\* the files of the upload dialog, with the duration of the stub asset
ProbeFiles ==
  { [id |-> "kick.wav", type |-> "audio/wav", duration |-> 300],
    [id |-> "take.mp4", type |-> "video/mp4", duration |-> 500] }
\* the tracks assets are sent to
ProbeTracks == {"v1", "a1"}
\* what arrives: the duration of the media, a waveform for an audio file, a thumbnail
\* for a video file
ProbeDurations == {250, 1200}
probeWaveform(type) == IF type = "audio/wav" THEN "wave" ELSE "null"
probeThumb(type) == IF type = "video/mp4" THEN "data:image/jpeg" ELSE "null"

ProbeStep(op) ==
  /\ budget < MaxProbeSteps
  /\ scn' = [scn EXCEPT !.op = op]
  /\ budget' = budget + 1
  /\ UNCHANGED probe

BUpload ==
  /\ \E f \in ProbeFiles :
       /\ \A i \in 1..Len(assets) : assets[i].id # f.id
       /\ UploadAsset(f.id, f.type, f.duration)
  /\ ProbeStep("upload")

BPlace ==
  /\ \E a \in 1..Len(assets), trackId \in ProbeTracks : PlaceAssetOnTrack(a, trackId)
  /\ ProbeStep("place")

BProbe ==
  /\ \E a \in 1..Len(assets), duration \in ProbeDurations :
       ProbeDone(assets[a].id, duration, probeWaveform(assets[a].type),
                 probeThumb(assets[a].type))
  /\ ProbeStep("probe")

NextProbe == BUpload \/ BPlace \/ BProbe

SpecProbe == Init /\ [][NextProbe]_vars

\* the fields a clip takes from its asset; an absent waveform or thumbnail is null
\* in the clip
SameMedia(c, asset) ==
  /\ c.duration = asset.duration
  /\ c.waveform = OrNull(asset.waveform)
  /\ c.thumb = OrNull(asset.thumb)

\* C32: whenever the metadata of an asset arrives, before or after placements of
\* that asset, only the asset records with one id change: the project (every clip,
\* the clips placed from that asset included) and the history stay as they are; and
\* a clip takes its duration, waveform and thumbnail from the asset as it is at
\* placement.
C32_ProbePatchesAssetOnly ==
  [][ /\ scn'.op = "probe" /\ budget' # budget =>
           /\ project' = project
           /\ history' = history
           /\ Len(assets') = Len(assets)
           /\ \E id \in {assets[i].id : i \in 1..Len(assets)} :
                \A i \in 1..Len(assets) : assets[i].id # id => assets'[i] = assets[i]
      /\ scn'.op = "place" /\ budget' # budget =>
           /\ SubSeq(project'.clips, 1, Len(project.clips)) = project.clips
           /\ \E a \in 1..Len(assets) : SameMedia(project'.clips[Len(project'.clips)], assets[a])
    ]_vars

\* metadata has arrived after a placement: the clip has the duration of the stub,
\* the asset the duration of the media
C32_ProbeAfterPlacement ==
  /\ scn.op = "probe"
  /\ \E a \in 1..Len(assets) :
       \E c \in Range(project.clips) :
          /\ c.id = assets[a].id \o "-clip"
          /\ c.duration # assets[a].duration
          /\ assets[a].waveform = "wave"
          /\ c.waveform = "null"

-----------------------------------------------------------------------------
(* Specification of loading: the storage holds a document or nothing at startup,
   and documents are imported afterwards.  The documents have every subset of the
   three top-level keys.  The observer scn keeps the last operation (op) and the
   document of the last load (doc). *)

\* imports explored per run
MaxLoadSteps == 2

\* the arrays a document may hold
DocTracks == << Track("v1", "video"), [Track("a9", "audio") EXCEPT !.locked = "true"] >>
DocClips == << Clip("k1", "Take", "v1", 100, 300),
               [Clip("k2", "Voice", "a9", 0, 450) EXCEPT !.mediaOffset = 50] >>
DocMarkers == << Marker(300, "Cue") >>

FullDoc == exportJson([tracks |-> DocTracks, clips |-> DocClips, markers |-> DocMarkers])

\* the documents: FullDoc cut down to each set of top-level keys
LoadDocs == {[k \in keys |-> FullDoc[k]] : keys \in SUBSET {"tracks", "clips", "markers"}}

DRestore ==
  /\ budget = 0
  /\ scn.op = "none"
  /\ \E data \in LoadDocs :
       /\ RestoreSaved(data)
       /\ scn' = [scn EXCEPT !.op = "restored", !.doc = data]
  /\ UNCHANGED <<probe, budget>>

DImport ==
  /\ budget < MaxLoadSteps
  /\ \E data \in LoadDocs :
       /\ ImportJson(data)
       /\ scn' = [scn EXCEPT !.op = "imported", !.doc = data]
  /\ budget' = budget + 1
  /\ UNCHANGED probe

NextLoad == DRestore \/ DImport

SpecLoad == Init /\ [][NextLoad]_vars

\* the value of a top-level field of the last document as the program reads it, and
\* the built-in default of the field
DocValue(k) ==
  CASE k = "tracks" -> parsedArray(scn.doc.tracks, TrackKeys)
    [] k = "clips" -> parsedArray(scn.doc.clips, ClipKeys)
    [] k = "markers" -> parsedArray(scn.doc.markers, MarkerKeys)
BuiltIn(k) == DefaultProject[k]

-----------------------------------------------------------------------------
(* Specification of Send to track: a project with empty tracks may be imported
   first; files are uploaded, their metadata arrives, and assets are sent to
   tracks.  The observer scn keeps the last operation (op), the project before it
   (p0) and, of a send, the asset and the track (args). *)

\* uploads, arrivals and sends explored per run
MaxSendSteps == 4

\* a document whose tracks v2, a1 and a2 hold no clip
SparseDoc ==
  [tracks |-> jsonArray(DEFAULT_TRACKS),
   clips |-> jsonArray(<< Clip("c1", "Intro", "v1", 100, 300) >>)]

SendFiles ==
  { [id |-> "kick.wav", type |-> "audio/wav", duration |-> 300],
    [id |-> "take.mp4", type |-> "video/mp4", duration |-> 2000] }
SendTracks == {"v1", "a1"}
SendDurations == {250}

SendStep(op) ==
  /\ budget < MaxSendSteps
  /\ budget' = budget + 1
  /\ UNCHANGED probe

NLoad ==
  /\ budget = 0
  /\ pointer = 0
  /\ ImportJson(SparseDoc)
  /\ UNCHANGED <<scn, probe, budget>>

NUpload ==
  /\ \E f \in SendFiles :
       /\ \A i \in 1..Len(assets) : assets[i].id # f.id
       /\ UploadAsset(f.id, f.type, f.duration)
  /\ scn' = [scn EXCEPT !.op = "upload"]
  /\ SendStep("upload")

NProbe ==
  /\ \E a \in 1..Len(assets), duration \in SendDurations :
       ProbeDone(assets[a].id, duration, probeWaveform(assets[a].type),
                 probeThumb(assets[a].type))
  /\ scn' = [scn EXCEPT !.op = "probe"]
  /\ SendStep("probe")

NSend ==
  /\ \E a \in 1..Len(assets), trackId \in SendTracks :
       /\ PlaceAssetOnTrack(a, trackId)
       /\ scn' = [scn EXCEPT !.op = "send", !.p0 = project,
                             !.args = [asset |-> assets[a], track |-> trackId]]
  /\ SendStep("send")

NextSend == NLoad \/ NUpload \/ NProbe \/ NSend

SpecSend == Init /\ [][NextSend]_vars

\* the clips of the track the asset was sent to, before the send, and the largest
\* end among them (0 when there is none)
OnTargetBefore == {c \in Range(scn.p0.clips) : c.track = scn.args.track}
LargestEnd ==
  IF OnTargetBefore = {} THEN 0
  ELSE CHOOSE e \in {ClipEnd(c) : c \in OnTargetBefore} :
         \A c \in OnTargetBefore : ClipEnd(c) <= e

\* C34: Send to track appends exactly one clip, on that track, with start = 0.1 +
\* the largest end of the clips already on the track (0.1 when the track is empty)
\* and the asset's duration; every existing clip is unchanged, and the new clip
\* overlaps no existing clip of that track.
C34_SendAppendsAfterLastClip ==
  scn.op = "send" =>
    LET new == project.clips[Len(project.clips)]
    IN  /\ Len(project.clips) = Len(scn.p0.clips) + 1
        /\ SubSeq(project.clips, 1, Len(scn.p0.clips)) = scn.p0.clips
        /\ new.track = scn.args.track
        /\ new.start = LargestEnd + 10
        /\ new.duration = scn.args.asset.duration
        /\ \A c \in OnTargetBefore :
             ~(new.start < ClipEnd(c) /\ c.start < ClipEnd(new))

\* an asset was sent to a track without clips and to a track with clips
C34_SentToEmptyTrack ==
  /\ scn.op = "send"
  /\ OnTargetBefore = {}
  /\ project.clips[Len(project.clips)].start = 10

C34_SentBehindClips ==
  /\ scn.op = "send"
  /\ Cardinality(OnTargetBefore) >= 2

-----------------------------------------------------------------------------
(* Ripple trims, checked under Spec *)

\* the other clips of the dragged clip's track that started at or after its start
\* at pointer-down
LaterOnTrack(i) ==
  /\ AtDown[i].id # dragRef.id
  /\ AtDown[i].track = Dragged.track
  /\ AtDown[i].start >= dragRef.origStart

RippleTrim ==
  /\ InGesture
  /\ dragRef.mode \in {"trim-start", "trim-end"}
  /\ rippleEdit
  /\ ~rollEdit
  /\ frame.moved
  /\ ~crashed

\* every later clip is shifted by the trimmed clip's change of duration, the others
\* are as they were at pointer-down
TrimShiftsLater ==
  LET D == Dragged.duration - dragRef.origDuration
  IN  \A i \in 1..Len(AtDown) :
        AtDown[i].id # dragRef.id =>
          IF LaterOnTrack(i)
          THEN project.clips[i] = [AtDown[i] EXCEPT !.start = AtDown[i].start + D]
          ELSE project.clips[i] = AtDown[i]

\* the distance from the trimmed clip's end to each later clip's start is what it
\* was at pointer-down
TrimKeepsGaps ==
  \A i \in 1..Len(AtDown) :
    LaterOnTrack(i) =>
      project.clips[i].start - ClipEnd(Dragged)
        = AtDown[i].start - (dragRef.origStart + dragRef.origDuration)

\* C35: with ripple on and roll off, after a frame of a trim-start or trim-end drag
\* every later clip of the track is shifted by the trimmed clip's net change of
\* duration and the gaps downstream are what they were at pointer-down; the clips
\* before the edit point and on other tracks are unchanged.
C35_RippleTrimKeepsGaps ==
  RippleTrim => (TrimShiftsLater /\ TrimKeepsGaps)

\* the two halves of C35, per trim mode
C35_ShiftOnly == RippleTrim => TrimShiftsLater
C35_GapsOnly == RippleTrim => TrimKeepsGaps

-----------------------------------------------------------------------------
(* Plain trim of the left edge, checked under Spec *)

\* C36: in a trim-start drag with roll and ripple off, whenever the resulting
\* duration is above MIN_CLIP it is the original duration minus the change of the
\* stored start, so the clip's end is where it was at pointer-down, also when the
\* start was bounded by the preceding sibling's end.
C36_TrimStartKeepsEnd ==
  ( /\ InGesture
    /\ dragRef.mode = "trim-start"
    /\ ~rollEdit
    /\ ~rippleEdit
    /\ frame.moved
    /\ ~crashed
    /\ Dragged.duration > MIN_CLIP )
  => /\ Dragged.duration = dragRef.origDuration - (Dragged.start - dragRef.origStart)
     /\ ClipEnd(Dragged) = dragRef.origStart + dragRef.origDuration

\* the same, for the frames in which the preceding sibling did not bound the start
C36_UnboundedTrimStartKeepsEnd ==
  ( /\ InGesture
    /\ dragRef.mode = "trim-start"
    /\ ~rollEdit
    /\ ~rippleEdit
    /\ frame.moved
    /\ ~crashed
    /\ Dragged.duration > MIN_CLIP
    /\ \/ allowOverlap
       \/ \A i \in 1..Len(AtDown) :
            (AtDown[i].id # dragRef.id /\ AtDown[i].track = Dragged.track
               /\ ClipEnd(AtDown[i]) <= dragRef.origStart)
              => Dragged.start > ClipEnd(AtDown[i]) + EPSILON )
  => ClipEnd(Dragged) = dragRef.origStart + dragRef.origDuration

-----------------------------------------------------------------------------
(* Specification of clip identity: files are uploaded, assets are sent to tracks
   and dropped on lanes, clips are selected by a click and duplicated. *)

\* uploads, sends, drops, clicks and duplications explored per run
MaxIdSteps == 4

IdFiles ==
  { [id |-> "kick.wav", type |-> "audio/wav", duration |-> 300],
    [id |-> "take.mp4", type |-> "video/mp4", duration |-> 500] }
IdTracks == {"v2", "a1"}
DropTimes == {0, 1500}

IdStep(op) ==
  /\ budget < MaxIdSteps
  /\ scn' = [scn EXCEPT !.op = op, !.p0 = project]
  /\ budget' = budget + 1
  /\ UNCHANGED probe

IUpload ==
  /\ \E f \in IdFiles :
       /\ \A i \in 1..Len(assets) : assets[i].id # f.id
       /\ UploadAsset(f.id, f.type, f.duration)
  /\ IdStep("upload")

ISend ==
  /\ \E a \in 1..Len(assets), trackId \in IdTracks : PlaceAssetOnTrack(a, trackId)
  /\ IdStep("send")

IDrop ==
  /\ \E a \in 1..Len(assets), trackId \in IdTracks, seconds \in DropTimes, now \in Clock :
       DropOnLane(a, trackId, seconds, now)
  /\ IdStep("drop")

\* a click on a clip: pointer down and up without a move
IClick ==
  /\ Idle
  /\ \E i \in 1..Len(project.clips), modifier \in BOOLEAN :
       /\ StartClipDrag(i, "move", modifier)
       /\ IdStep("click")

IUp == ~Idle /\ OnUp /\ IdStep("up")

IDuplicate == Idle /\ (\E now \in Clock : KeyDuplicate(now)) /\ IdStep("duplicate")

NextIds == IUpload \/ ISend \/ IDrop \/ IClick \/ IUp \/ IDuplicate

SpecIds == Init /\ [][NextIds]_vars

\* C37: after any sequence of send-to-track, drop-on-track and duplicate operations
\* (the same asset sent more than once included), no two clips have the same id.
C37_ClipIdsUnique ==
  \A i, j \in 1..Len(project.clips) :
    i # j => project.clips[i].id # project.clips[j].id

-----------------------------------------------------------------------------
(* A drag that comes back to where it started, checked under Spec *)

\* the last frame of the drag had displacement zero
BackAtDown == InGesture /\ frame.moved /\ frame.deltaSec = 0

\* the project with every absent mediaOffset read as 0, as all its readers do
\* (c.mediaOffset ?? 0): a slip frame stores the 0 it has read
OffsetsRead(p) ==
  [p EXCEPT !.clips = [i \in 1..Len(p.clips) |->
                         [p.clips[i] EXCEPT !.mediaOffset = OrElse(p.clips[i].mediaOffset, 0)]]]

\* C38: a clip drag whose pointer returns to its pointer-down position is the
\* identity: in every mode, with ripple and roll on or off, after a frame with zero
\* displacement the project equals the project at pointer-down, whatever frames
\* came before it.  (The frames that throw are left aside here.)
C38_ReturnToStartIsIdentity ==
  (BackAtDown /\ ~crashed) => OffsetsRead(project) = OffsetsRead(dragStartedState)

\* the same for move drags with ripple off
C38_MoveReturn ==
  (BackAtDown /\ dragRef.mode = "move" /\ ~rippleEdit /\ ~crashed)
    => project = dragStartedState

-----------------------------------------------------------------------------
(* Specification of track locking: tracks are locked and unlocked, clips are
   clicked and dragged, the selection is nudged, deleted and duplicated, files are
   uploaded and assets are sent to tracks and dropped on lanes. *)

\* events explored per run
MaxLockSteps == 4

LockTracks == {"v1", "a1"}
LockTargets == {"c1", "c4"}
LockFiles == { [id |-> "kick.wav", type |-> "audio/wav", duration |-> 300] }
LockDeltas == {50}
LockDropTimes == {1500}

LockStep(op) ==
  /\ budget < MaxLockSteps
  /\ scn' = [scn EXCEPT !.op = op, !.p0 = project]
  /\ budget' = budget + 1
  /\ UNCHANGED probe

LLock == Idle /\ (\E trackId \in LockTracks : ToggleLock(trackId)) /\ LockStep("lock")

LDown ==
  /\ Idle
  /\ \E i \in 1..Len(project.clips) :
       project.clips[i].id \in LockTargets /\ StartClipDrag(i, "move", FALSE)
  /\ LockStep("down")

LMove == ~Idle /\ (\E d \in LockDeltas : OnMove(d)) /\ LockStep("move")

LUp == ~Idle /\ OnUp /\ LockStep("up")

LNudge == Idle /\ KeyArrow("ArrowRight", FALSE) /\ LockStep("nudge")

LDelete == Idle /\ KeyDelete /\ LockStep("delete")

LDuplicate == Idle /\ (\E now \in Clock : KeyDuplicate(now)) /\ LockStep("duplicate")

LUpload ==
  /\ \E f \in LockFiles :
       /\ \A i \in 1..Len(assets) : assets[i].id # f.id
       /\ UploadAsset(f.id, f.type, f.duration)
  /\ LockStep("upload")

LSend ==
  /\ Idle
  /\ \E a \in 1..Len(assets), trackId \in LockTracks : PlaceAssetOnTrack(a, trackId)
  /\ LockStep("send")

LDrop ==
  /\ Idle
  /\ \E a \in 1..Len(assets), trackId \in LockTracks, seconds \in LockDropTimes :
       DropOnLane(a, trackId, seconds, budget)
  /\ LockStep("drop")

NextLock ==
  LLock \/ LDown \/ LMove \/ LUp \/ LNudge \/ LDelete \/ LDuplicate \/ LUpload \/ LSend \/ LDrop

SpecLock == Init /\ [][NextLock]_vars

\* the track is locked in project p
LockedIn(p, trackId) ==
  LET tr == trackOf(p, trackId) IN tr # <<>> /\ Truthy(tr[1].locked)

ClipsOn(p, trackId) == Filter(p.clips, {c \in Range(p.clips) : c.track = trackId})

\* the clips of the tracks that are locked before and after the step are the same
LockedClipsKept ==
  \A trackId \in {"v1", "v2", "a1", "a2"} :
    (LockedIn(project, trackId) /\ LockedIn(project', trackId))
      => ClipsOn(project', trackId) = ClipsOn(project, trackId)

\* C39: while a track is locked, no operation adds, removes or changes a clip on
\* that track: drags cannot start on its clips, drops onto it are ignored, and no
\* keyboard edit (nudge, delete, duplicate) or send to track alters its clips.
C39_LockedTrackIsFrozen == [][LockedClipsKept]_vars

\* the part of C39 about pointer input: no drag starts on a clip of a locked track,
\* and a drop on a locked track leaves the project alone
C39_NoDragOrDropOnLockedTrack ==
  [][ /\ (dragRef = NoDrag /\ dragRef' # NoDrag)
          => ~LockedIn(project, FindClip(project.clips, dragRef'.id)[1].track)
      /\ scn'.op = "drop" => LockedClipsKept ]_vars

-----------------------------------------------------------------------------
(* Specification of track buttons during playback: an audio file is uploaded and
   sent to an audio track; then playback is started and stopped, frames run, and
   the mute, solo and lock buttons are pressed at any time. *)

\* button presses and frames explored per run
MaxLiveSteps == 4

LiveFile == [id |-> "kick.wav", type |-> "audio/wav", duration |-> 300]
LiveTracks == {"a1", "a2"}
LivePresses ==
  { [button |-> "mute", track |-> "a1"], [button |-> "solo", track |-> "a2"],
    [button |-> "lock", track |-> "a1"] }
LiveFrameTimes == {100}

LiveStep(op) ==
  /\ budget < MaxLiveSteps
  /\ scn' = [scn EXCEPT !.op = op]
  /\ budget' = budget + 1
  /\ UNCHANGED probe

VUpload ==
  /\ budget = 0
  /\ assets = <<>>
  /\ UploadAsset(LiveFile.id, LiveFile.type, LiveFile.duration)
  /\ UNCHANGED <<scn, probe, budget>>

VPlace ==
  /\ budget = 0
  /\ Len(project.clips) = Len(DEFAULT_CLIPS)
  /\ \E a \in 1..Len(assets), trackId \in LiveTracks : PlaceAssetOnTrack(a, trackId)
  /\ UNCHANGED <<scn, probe, budget>>

VPlay == Len(project.clips) > Len(DEFAULT_CLIPS) /\ Play /\ LiveStep("play")

VStop == Stop /\ LiveStep("stop")

VTick == (\E c \in 1..calls, dt \in LiveFrameTimes : Tick(c, dt)) /\ LiveStep("tick")

VToggle ==
  /\ \E press \in LivePresses :
       \/ press.button = "mute" /\ ToggleMute(press.track)
       \/ press.button = "solo" /\ ToggleSolo(press.track)
       \/ press.button = "lock" /\ ToggleLock(press.track)
  /\ LiveStep("toggle")

NextLive == VUpload \/ VPlace \/ VPlay \/ VStop \/ VTick \/ VToggle

SpecLive == Init /\ [][NextLive]_vars

\* the clips of the sources that were started and not stopped
LiveClips == {l.src.clip : l \in live}

\* C40: at every moment while playing, every audio source scheduled and not
\* stopped belongs to a clip whose track is audible under the current track flags
\* (not locked, and soloed when any track is soloed, else not muted), also after
\* mute, solo or lock is pressed during playback.
C40_LiveSourcesAreAudible ==
  playing => \A c \in LiveClips : OnAudibleTrack(c)

\* the same at the start of playback: right after play was pressed
C40_AudibleAtStart ==
  (playing /\ scn.op = "play") => \A c \in LiveClips : OnAudibleTrack(c)

====
